---- MODULE Spec2Model ----
(***************************************************************************)
(* khorsyio core bus (src/khorsyio/core/bus.py, structs.py, handler.py):   *)
(* the in-process publish/subscribe dispatcher with request/response       *)
(* waiters, handler fan-out, handler timeouts, scheduled publication and   *)
(* drain-on-stop.  One step of the model is one run of a coroutine between *)
(* two suspension points of the asyncio event loop.                        *)
(***************************************************************************)
EXTENDS Integers, Sequences, FiniteSets, Bags, TLC

(***************************************************************************)
(* Bounds of the exploration.                                              *)
(***************************************************************************)
MaxPublish == 1
MaxRequest == 1
MaxStop == 1
MaxSchedFire == 2
EventLogSize == 1
MaxCallbacks == 2

(***************************************************************************)
(* Durations, in units of 0.05 s.                                          *)
(***************************************************************************)
DrainPause == 2
PollStep == 2
DrainTimeouts == {0, 1, 3}

(***************************************************************************)
(* The timeout a Handler class carries unless it sets its own, and the     *)
(* handler_timeout of a Bus built without one (handler.py 11, bus.py 151), *)
(* in seconds.                                                             *)
(***************************************************************************)
DefaultTimeout == 30

(***************************************************************************)
(* structs.py: Context, Error, Envelope.  A payload is the string that was *)
(* encoded; an absent Error is the empty tuple, a present one <<error>>.   *)
(***************************************************************************)
\* uuid4().hex[:16]: a fresh id, named after who drew it and the how-manieth it is.
Uuid(who, n) == who \o ToString(n)

Context(trace_id, source, user_id, extra) ==
    [trace_id |-> trace_id, source |-> source, user_id |-> user_id, extra |-> extra]

Error(code, source, trace_id) ==
    [code |-> code, source |-> source, trace_id |-> trace_id]

create_fresh_trace(event_type, data, source, trace_id, user_id, extra, uuid) ==
    [ctx |-> Context(uuid, source, user_id, extra),
     event_type |-> event_type,
     payload |-> data,
     error |-> <<>>]

\* Envelope.create: a trace_id that is None or "" draws the fresh uuid.
create(event_type, data, source, trace_id, user_id, extra, uuid) ==
    [ctx |-> Context(IF trace_id = "" THEN uuid ELSE trace_id, source, user_id, extra),
     event_type |-> event_type,
     payload |-> data,
     error |-> <<>>]

error_from_same_type(original, code, source) ==
    [ctx |-> Context(original.ctx.trace_id, source, original.ctx.user_id, ""),
     event_type |-> original.event_type,
     payload |-> original.payload,
     error |-> <<Error(code, source, original.ctx.trace_id)>>]

\* Envelope.error_from: the new Context takes no extra from the original.
error_from(original, code, source) ==
    [ctx |-> Context(original.ctx.trace_id, source, original.ctx.user_id, ""),
     event_type |-> original.event_type \o ".error",
     payload |-> original.payload,
     error |-> <<Error(code, source, original.ctx.trace_id)>>]

forward_without_trace(envelope, event_type, data, source) ==
    create(event_type, data, source, "", envelope.ctx.user_id, envelope.ctx.extra, "f")

\* Envelope.forward
forward(envelope, event_type, data, source) ==
    create(event_type, data, source, envelope.ctx.trace_id,
           envelope.ctx.user_id, envelope.ctx.extra, "f")

is_error(envelope) == envelope.error # <<>>

(***************************************************************************)
(* The handler classes that can be registered (tests/test_bus.py,          *)
(* tests/test_multi_core.py), in the order register() is called.           *)
(***************************************************************************)
MockHandler ==
    [name |-> "MockHandler", subscribes_to |-> "test.event",
     publishes |-> "test.result", input_type |-> "Data", timeout |-> DefaultTimeout,
     execution_mode |-> "main"]

AuditHandler ==
    [name |-> "AuditHandler", subscribes_to |-> "test.result",
     publishes |-> "", input_type |-> "", timeout |-> DefaultTimeout,
     execution_mode |-> "main"]

HeavyHandler ==
    [name |-> "HeavyHandler", subscribes_to |-> "calc.heavy",
     publishes |-> "calc.result", input_type |-> "CalcData",
     timeout |-> DefaultTimeout, execution_mode |-> "process"]

Catalog == <<MockHandler, AuditHandler, HeavyHandler>>

Names == {Catalog[i].name : i \in DOMAIN Catalog}

Topics ==
    {"test.event", "test.result", "calc.heavy", "calc.result", "other.event",
     "test.event.error", "ns.test.event", "ns.calc.heavy"}

VARIABLES
    subs,             \* Bus._subs: topic -> handlers in registration order
    error_callbacks,  \* Bus._error_callbacks: each callback and the calls it got
    scheduled,        \* Bus._scheduled: the ScheduledTask entries
    has_queue,        \* Bus._queue is not None
    queue,            \* Bus._queue
    running,          \* Bus._running
    draining,         \* Bus._draining
    waiters,          \* Bus._waiters: waiter key -> the request call owning the future
    executor,         \* ProcessPool.executor is not None
    metrics,          \* Bus.metrics
    event_log,        \* Bus.event_log._buffer
    loop,             \* the start() coroutine: "none", "get" (in queue.get), "exited"
    tasks,            \* the _dispatch tasks in flight
    calls,            \* the request() calls made so far
    stop,             \* the stop() coroutine
    budget,           \* how many calls of each operation were made
    event_log_size,   \* Bus.event_log._buffer.maxlen (the event_log_size argument)
    answer,           \* what the last call of publish, recent or validate_graph gave
    default_timeout   \* Bus._default_timeout (the handler_timeout argument)

vars == <<subs, error_callbacks, scheduled, has_queue, queue, running, draining,
          waiters, executor, metrics, event_log, loop, tasks, calls, stop,
          budget, event_log_size, answer, default_timeout>>

(***************************************************************************)
(* dict.pop(key, None) on a finite map.                                    *)
(***************************************************************************)
Pop(map, key) == [k \in (DOMAIN map) \ {key} |-> map[k]]

(***************************************************************************)
(* Metrics.record and EventLog.record (bus.py 89-94, 117-127).  Durations  *)
(* and timestamps are left out; the deque drops its oldest entry when an   *)
(* append makes it longer than maxlen.                                     *)
(***************************************************************************)
MetricsRecordOkOnly(m, handler_name, ok) ==
    [processed |-> IF ok THEN [m.processed EXCEPT ![handler_name] = @ + 1]
                   ELSE m.processed,
     errors |-> IF ok THEN m.errors
                ELSE [m.errors EXCEPT ![handler_name] = @ + 1]]

MetricsRecord(m, handler_name, ok) ==
    [processed |-> [m.processed EXCEPT ![handler_name] = @ + 1],
     errors |-> IF ok THEN m.errors
                ELSE [m.errors EXCEPT ![handler_name] = @ + 1]]

LogEntry(envelope, handler_name, ok) ==
    [event_type |-> envelope.event_type, trace_id |-> envelope.ctx.trace_id,
     source |-> envelope.ctx.source, handler |-> handler_name, ok |-> ok,
     error |-> IF is_error(envelope) THEN envelope.error[1].code ELSE ""]

EventLogRecordKeepOldest(buffer, envelope, handler_name, ok) ==
    IF Len(buffer) >= event_log_size THEN buffer
    ELSE Append(buffer, LogEntry(envelope, handler_name, ok))

EventLogRecord(buffer, envelope, handler_name, ok) ==
    LET appended == Append(buffer, LogEntry(envelope, handler_name, ok))
    IN  IF Len(appended) > event_log_size THEN Tail(appended) ELSE appended

(***************************************************************************)
(* Bus.__init__ (bus.py 151-163).                                          *)
(***************************************************************************)
\* The stop() coroutine: where it is, its argument, the time it has slept and its
\* deadline; while it drains, also the queue it found when it was called and
\* whether the start() loop was running then.
NoStop ==
    [pc |-> "idle", drain_timeout |-> 0, elapsed |-> 0, deadline |-> 0,
     on_running |-> FALSE, queued |-> <<>>]

NoAnswer == [call |-> "", args |-> <<>>, raised |-> "", value |-> <<>>]

BusInit(handler_timeout, max_size) ==
    /\ subs = [t \in Topics |-> <<>>]
    /\ error_callbacks = <<>>
    /\ scheduled = <<>>
    /\ has_queue = FALSE
    /\ queue = <<>>
    /\ running = FALSE
    /\ draining = FALSE
    /\ waiters = <<>>
    /\ executor = FALSE
    /\ metrics = [processed |-> [n \in Names |-> 0], errors |-> [n \in Names |-> 0]]
    /\ event_log = <<>>
    /\ loop = "none"
    /\ tasks = EmptyBag
    /\ calls = <<>>
    /\ stop = NoStop
    /\ budget = [publish |-> 0, stop |-> 0, fire |-> 0, registered |-> 0]
    /\ event_log_size = max_size
    /\ default_timeout = handler_timeout
    /\ answer = NoAnswer

Init == BusInit(DefaultTimeout, EventLogSize)

(***************************************************************************)
(* Configuration before the first start(): register, on_error, schedule    *)
(* (bus.py 165-176).  Handlers are registered in the order of Catalog.     *)
(***************************************************************************)
Configuring == loop = "none" /\ ~has_queue /\ stop.pc = "idle"

register_always(handler, bus_timeout) == [handler EXCEPT !.timeout = bus_timeout]

\* bus.py 166-167: what register() makes of the handler before it appends it.
register(handler, bus_timeout) ==
    IF handler.timeout = DefaultTimeout /\ bus_timeout # DefaultTimeout
    THEN [handler EXCEPT !.timeout = bus_timeout]
    ELSE handler

Register ==
    /\ Configuring
    /\ budget.registered < Len(Catalog)
    /\ LET handler == register(Catalog[budget.registered + 1], default_timeout)
       IN  subs' = [subs EXCEPT ![handler.subscribes_to] = Append(@, handler)]
    /\ budget' = [budget EXCEPT !.registered = @ + 1]
    /\ UNCHANGED <<event_log_size, answer, default_timeout>>
    /\ UNCHANGED <<error_callbacks, scheduled, has_queue, queue, running, draining,
                   waiters, executor, metrics, event_log, loop, tasks, calls, stop>>

\* A callback: whether it raises when called, how often it was called, the
\* Envelope of its last call and the place of that call among all calls made.
Callback(raises) == [raises |-> raises, called |-> 0, got |-> <<>>, at |-> 0]

OnError ==
    /\ Configuring
    /\ budget.registered = Len(Catalog)
    /\ error_callbacks = <<>>
    /\ error_callbacks' = Append(error_callbacks, Callback(FALSE))
    /\ UNCHANGED <<event_log_size, answer, default_timeout>>
    /\ UNCHANGED <<subs, scheduled, has_queue, queue, running, draining, waiters,
                   executor, metrics, event_log, loop, tasks, calls, stop, budget>>

\* Bus.on_error with any callback, one that raises when called included.
OnErrorAny(raises) ==
    /\ Configuring
    /\ budget.registered = Len(Catalog)
    /\ Len(error_callbacks) < MaxCallbacks
    /\ error_callbacks' = Append(error_callbacks, Callback(raises))
    /\ UNCHANGED <<event_log_size, answer, default_timeout>>
    /\ UNCHANGED <<subs, scheduled, has_queue, queue, running, draining, waiters,
                   executor, metrics, event_log, loop, tasks, calls, stop, budget>>

Schedule ==
    /\ Configuring
    /\ error_callbacks # <<>>
    /\ scheduled = <<>>
    /\ scheduled' = Append(scheduled, [event_type |-> "other.event", task |-> "none"])
    /\ UNCHANGED <<event_log_size, answer, default_timeout>>
    /\ UNCHANGED <<subs, error_callbacks, has_queue, queue, running, draining, waiters,
                   executor, metrics, event_log, loop, tasks, calls, stop, budget>>

(***************************************************************************)
(* Bus.start (bus.py 292-309).  The coroutine suspends only inside         *)
(* wait_for(queue.get(), 0.5): one step is one turn of the while loop, from *)
(* the wake-up to the next test of (running or draining).                  *)
(***************************************************************************)
LoopConditionAlways(is_running, is_draining) == "get"

LoopCondition(is_running, is_draining) ==
    IF is_running \/ is_draining THEN "get" ELSE "exited"

NewTask(envelope) == [envelope |-> envelope, pc |-> "new", runs |-> <<>>]

Configured == budget.registered = Len(Catalog) /\ error_callbacks # <<>>

Start ==
    /\ loop \in {"none", "exited"}
    /\ Configured
    /\ has_queue' = TRUE
    /\ queue' = <<>>
    /\ waiters' = <<>>
    /\ running' = TRUE
    /\ executor' = TRUE
    /\ scheduled' = [i \in DOMAIN scheduled |-> [scheduled[i] EXCEPT !.task = "sleeping"]]
    /\ loop' = "get"
    /\ UNCHANGED <<event_log_size, answer, default_timeout>>
    /\ UNCHANGED <<subs, error_callbacks, draining, metrics, event_log, tasks, calls,
                   stop, budget>>

LoopGetLast ==
    /\ loop = "get"
    /\ queue # <<>>
    /\ queue' = SubSeq(queue, 1, Len(queue) - 1)
    /\ tasks' = tasks (+) SetToBag({NewTask(queue[Len(queue)])})
    /\ loop' = LoopCondition(running, draining)
    /\ UNCHANGED <<event_log_size, answer, default_timeout>>
    /\ UNCHANGED <<subs, error_callbacks, scheduled, has_queue, running, draining,
                   waiters, executor, metrics, event_log, calls, stop, budget>>

LoopGetOneAtATime ==
    /\ loop = "get"
    /\ queue # <<>>
    /\ tasks = EmptyBag
    /\ queue' = Tail(queue)
    /\ tasks' = tasks (+) SetToBag({NewTask(Head(queue))})
    /\ loop' = LoopCondition(running, draining)
    /\ UNCHANGED <<event_log_size, answer, default_timeout>>
    /\ UNCHANGED <<subs, error_callbacks, scheduled, has_queue, running, draining,
                   waiters, executor, metrics, event_log, calls, stop, budget>>

LoopGet ==
    /\ loop = "get"
    /\ queue # <<>>
    /\ queue' = Tail(queue)
    /\ tasks' = tasks (+) SetToBag({NewTask(Head(queue))})
    /\ loop' = LoopCondition(running, draining)
    /\ UNCHANGED <<event_log_size, answer, default_timeout>>
    /\ UNCHANGED <<subs, error_callbacks, scheduled, has_queue, running, draining,
                   waiters, executor, metrics, event_log, calls, stop, budget>>

LoopTimeout ==
    /\ loop = "get"
    /\ queue = <<>>
    /\ loop' = IF draining THEN "exited" ELSE LoopCondition(running, draining)
    /\ UNCHANGED <<event_log_size, answer, default_timeout>>
    /\ UNCHANGED <<subs, error_callbacks, scheduled, has_queue, queue, running,
                   draining, waiters, executor, metrics, event_log, tasks, calls,
                   stop, budget>>

(***************************************************************************)
(* Bus.publish (bus.py 178-188) with an event type and a payload.  Before  *)
(* the first start() the queue is None and the put raises.                 *)
(***************************************************************************)
KnownTraces == {calls[c].envelope.ctx.trace_id : c \in DOMAIN calls}

Publish(event_type, trace_id) ==
    /\ budget.publish < MaxPublish
    /\ queue' = IF has_queue
                THEN Append(queue, create(event_type, "hello", "", trace_id, "",
                                          "conn-1", Uuid("p", budget.publish + 1)))
                ELSE queue
    /\ budget' = [budget EXCEPT !.publish = @ + 1]
    /\ UNCHANGED <<event_log_size, answer, default_timeout>>
    /\ UNCHANGED <<subs, error_callbacks, scheduled, has_queue, running, draining,
                   waiters, executor, metrics, event_log, loop, tasks, calls, stop>>

(***************************************************************************)
(* Bus._run_scheduled (bus.py 281-290): after each sleep, publish if the   *)
(* bus is still running, otherwise leave the loop.                         *)
(***************************************************************************)
SchedFire(i) ==
    /\ scheduled[i].task = "sleeping"
    /\ budget.fire < MaxSchedFire
    /\ IF running
       THEN /\ queue' = Append(queue, create(scheduled[i].event_type, "tick", "scheduler",
                                             "", "", "", Uuid("s", budget.fire + 1)))
            /\ budget' = [budget EXCEPT !.fire = @ + 1]
            /\ UNCHANGED scheduled
       ELSE /\ scheduled' = [scheduled EXCEPT ![i].task = "done"]
            /\ UNCHANGED <<queue, budget>>
    /\ UNCHANGED <<event_log_size, answer, default_timeout>>
    /\ UNCHANGED <<subs, error_callbacks, has_queue, running, draining, waiters,
                   executor, metrics, event_log, loop, tasks, calls, stop>>

(***************************************************************************)
(* Waiters (bus.py 193-215).  A future is [done, result]: a cancelled      *)
(* future is done with no result.                                          *)
(***************************************************************************)
PendingFuture == [done |-> FALSE, result |-> <<>>]

CancelledFuture == [done |-> TRUE, result |-> <<>>]

ResolvedFuture(envelope) == [done |-> TRUE, result |-> <<envelope>>]

WaiterKey(event_type, trace_id) == event_type \o ":" \o trace_id

check_waiters_never(table, cs, envelope) == FALSE

\* Bus._check_waiters: whether the Envelope finds a future that is not done.
check_waiters_done_or_not(table, cs, envelope) ==
    WaiterKey(envelope.event_type, envelope.ctx.trace_id) \in DOMAIN table

check_waiters(table, cs, envelope) ==
    LET key == WaiterKey(envelope.event_type, envelope.ctx.trace_id)
    IN  /\ key \in DOMAIN table
        /\ ~cs[table[key]].future.done

\* future.set_result(envelope) on the future check_waiters found.
set_result(table, cs, envelope) ==
    LET key == WaiterKey(envelope.event_type, envelope.ctx.trace_id)
    IN  [cs EXCEPT ![table[key]].future = ResolvedFuture(envelope)]

(***************************************************************************)
(* Handler.handle (handler.py 14-26), by what process does: it returns a   *)
(* Struct, an Envelope of its own, None, it raises an Exception ("raise"), *)
(* it raises TimeoutError ("raise_timeout"), or it does not return.        *)
(***************************************************************************)
ProcessKinds == {"struct", "envelope", "none", "raise", "raise_timeout", "hang"}

handle_under_publishes(handler, envelope, kind) ==
    CASE kind = "none" -> <<>>
      [] kind \in {"struct", "envelope"} ->
            IF handler.publishes # ""
            THEN <<forward(envelope, handler.publishes, "echo:" \o envelope.payload,
                           handler.name)>>
            ELSE <<>>

handle(handler, envelope, kind) ==
    CASE kind = "none" -> <<>>
      [] kind = "envelope" ->
            <<create(envelope.event_type \o ".response", "own:" \o envelope.payload,
                     handler.name, envelope.ctx.trace_id, "", "", "")>>
      [] kind = "struct" ->
            IF handler.publishes # ""
            THEN <<forward(envelope, handler.publishes, "echo:" \o envelope.payload,
                           handler.name)>>
            ELSE <<>>

(***************************************************************************)
(* Bus._run_handler (bus.py 232-266): what one invocation comes to.  In    *)
(* "main" mode a process that hangs is cut off by wait_for; in "process"   *)
(* mode the pool's answer is decoded as an Envelope, which fails on None.  *)
(* asyncio.TimeoutError is the builtin TimeoutError: the first except      *)
(* clause (bus.py 251) also takes a TimeoutError that process raised.      *)
(***************************************************************************)
Completes(handler, kind) == handler.execution_mode = "main" \/ kind # "hang"

FailureWithoutTimeout(handler, kind) ==
    IF kind \in {"raise", "raise_timeout", "hang"} \/ (handler.execution_mode = "process" /\ kind = "none")
    THEN "handler_error"
    ELSE ""

\* bus.py 31-33: the worker builds its own handler from the class, handler_cls().
ClassOf(handler) == Catalog[CHOOSE i \in DOMAIN Catalog : Catalog[i].name = handler.name]

\* bus.py 79: the pool's answer is decoded as an Envelope; the None that handle
\* returned (handler.py 19-26) is not one.
ReturnsNone(handler, kind) ==
    kind = "none" \/ (kind = "struct" /\ handler.publishes = "")

Failure(handler, kind) ==
    IF handler.execution_mode = "main"
    THEN CASE kind \in {"hang", "raise_timeout"} -> "timeout"
           [] kind = "raise" -> "handler_error"
           [] OTHER -> ""
    ELSE CASE kind = "raise_timeout" -> "timeout"
           [] kind = "raise" \/ ReturnsNone(ClassOf(handler), kind) -> "handler_error"
           [] OTHER -> ""

\* Envelope.decode (structs.py 47-48) of a payload into a Struct type with a
\* required field: the empty object, which has no field, is rejected.
decodes(envelope, typ) == envelope.payload # "{}"

\* handler.py 15-18: with an input type the payload is decoded before process is
\* called; without one process gets the Envelope as it is.
Decoded(handler, envelope) ==
    handler.input_type = "" \/ decodes(envelope, handler.input_type)

Ends(handler, envelope, kind) ==
    ~Decoded(handler, envelope) \/ Completes(handler, kind)

run_handler_without_decode(handler, envelope, kind) ==
    LET code == Failure(handler, kind)
        invoked == IF handler.execution_mode = "process" THEN ClassOf(handler)
                   ELSE handler
    IN  IF code = ""
        THEN [ok |-> TRUE, result |-> handle(invoked, envelope, kind)]
        ELSE [ok |-> FALSE, result |-> <<error_from(envelope, code, handler.name)>>]

run_handler(handler, envelope, kind) ==
    LET invoked == IF handler.execution_mode = "process" THEN ClassOf(handler)
                   ELSE handler
        code == IF Decoded(invoked, envelope) THEN Failure(handler, kind)
                ELSE "handler_error"
    IN  IF code = ""
        THEN [ok |-> TRUE, result |-> handle(invoked, envelope, kind)]
        ELSE [ok |-> FALSE, result |-> <<error_from(envelope, code, handler.name)>>]

(***************************************************************************)
(* Bus._notify_error (bus.py 272-279): the callbacks are called in list    *)
(* order; an Exception a callback raises is caught and logged inside the   *)
(* loop.  raised tells whether an exception leaves _notify_error.          *)
(***************************************************************************)
RECURSIVE CallsMade(_)
CallsMade(callbacks) ==
    IF callbacks = <<>> THEN 0 ELSE Head(callbacks).called + CallsMade(Tail(callbacks))

Call(cb, envelope, n) == [cb EXCEPT !.called = @ + 1, !.got = <<envelope>>, !.at = n]

RECURSIVE notify_error_until_raise_from(_, _, _)
notify_error_until_raise_from(callbacks, envelope, i) ==
    IF i > Len(callbacks) THEN [callbacks |-> callbacks, raised |-> FALSE]
    ELSE LET called == [callbacks EXCEPT
                           ![i] = Call(@, envelope, CallsMade(callbacks) + 1)]
         IN  IF callbacks[i].raises THEN [callbacks |-> called, raised |-> TRUE]
             ELSE notify_error_until_raise_from(called, envelope, i + 1)

notify_error_until_raise(callbacks, envelope) ==
    notify_error_until_raise_from(callbacks, envelope, 1)

RECURSIVE notify_error_from(_, _, _)
notify_error_from(callbacks, envelope, i) ==
    IF i > Len(callbacks) THEN [callbacks |-> callbacks, raised |-> FALSE]
    ELSE notify_error_from([callbacks EXCEPT
                               ![i] = Call(@, envelope, CallsMade(callbacks) + 1)],
                           envelope, i + 1)

notify_error(callbacks, envelope) == notify_error_from(callbacks, envelope, 1)

(***************************************************************************)
(* Bus._dispatch (bus.py 217-230), first part: log the Envelope, then      *)
(* either resolve its waiter or start one _run_handler per subscriber.     *)
(***************************************************************************)
SubscribersOfAnything(event_type) == Catalog

Subscribers(event_type) ==
    IF event_type \in DOMAIN subs THEN subs[event_type] ELSE <<>>

Via(handler) ==
    IF handler.execution_mode = "process"
    THEN (IF executor THEN "pool" ELSE "thread")
    ELSE "main"

\* bus.py 237-244: the timeout _run_handler hands to asyncio.wait_for; the pool's
\* run_task is awaited without one.
wait_for(handler) ==
    IF handler.execution_mode = "process" THEN <<>> ELSE <<handler.timeout>>

dispatch_without_return(envelope) ==
    [resolved |-> check_waiters(waiters, calls, envelope),
     handlers |-> Subscribers(envelope.event_type)]

dispatch_first_only(envelope) ==
    IF check_waiters(waiters, calls, envelope)
    THEN [resolved |-> TRUE, handlers |-> <<>>]
    ELSE [resolved |-> FALSE,
          handlers |-> LET handlers == Subscribers(envelope.event_type)
                       IN  IF handlers = <<>> THEN <<>> ELSE <<Head(handlers)>>]

dispatch(envelope) ==
    IF check_waiters(waiters, calls, envelope)
    THEN [resolved |-> TRUE, handlers |-> <<>>]
    ELSE [resolved |-> FALSE, handlers |-> Subscribers(envelope.event_type)]

\* A request() call that is waiting, in the table, for this (event type, trace id).
Awaited(envelope) ==
    \E c \in DOMAIN calls :
        /\ calls[c].pc = "wait"
        /\ ~calls[c].future.done
        /\ \E k \in DOMAIN waiters : waiters[k] = c
        /\ calls[c].wait_event = envelope.event_type
        /\ calls[c].envelope.ctx.trace_id = envelope.ctx.trace_id

DispatchStart(t) ==
    /\ t.pc = "new"
    /\ LET envelope == t.envelope
           plan == dispatch(envelope)
           runs == [i \in DOMAIN plan.handlers |->
                       [handler |-> plan.handlers[i], via |-> Via(plan.handlers[i]),
                        timeout |-> wait_for(plan.handlers[i]),
                        st |-> "run", result |-> <<>>]]
       IN  /\ event_log' = EventLogRecord(event_log, envelope, "", TRUE)
           /\ calls' = IF plan.resolved THEN set_result(waiters, calls, envelope)
                       ELSE calls
           /\ tasks' = IF plan.handlers = <<>>
                       THEN tasks (-) SetToBag({t})
                       ELSE (tasks (-) SetToBag({t}))
                            (+) SetToBag({[t EXCEPT !.pc = "gather", !.runs = runs]})
    /\ UNCHANGED <<event_log_size, answer, default_timeout>>
    /\ UNCHANGED <<subs, error_callbacks, scheduled, has_queue, queue, running,
                   draining, waiters, executor, metrics, loop, stop, budget>>

(***************************************************************************)
(* One _run_handler of a gather comes to its end (bus.py 245-266): the     *)
(* metrics and the event log are written, and on a failure every error     *)
(* callback is called.  An exception that left _notify_error would be the  *)
(* result gather keeps for the run, in place of the Error Envelope.        *)
(***************************************************************************)
HandlerDone(t, i, kind) ==
    /\ t.pc = "gather"
    /\ i \in DOMAIN t.runs
    /\ t.runs[i].st = "run"
    /\ kind \in ProcessKinds
    /\ Ends(t.runs[i].handler, t.envelope, kind)
    /\ LET handler == t.runs[i].handler
           out == run_handler(handler, t.envelope, kind)
           told == IF out.ok THEN [callbacks |-> error_callbacks, raised |-> FALSE]
                   ELSE notify_error(error_callbacks, out.result[1])
       IN  /\ metrics' = MetricsRecord(metrics, handler.name, out.ok)
           /\ event_log' = IF out.result # <<>>
                           THEN EventLogRecord(event_log, out.result[1], handler.name,
                                               out.ok)
                           ELSE event_log
           /\ error_callbacks' = told.callbacks
           /\ tasks' = (tasks (-) SetToBag({t}))
                       (+) SetToBag({[t EXCEPT !.runs[i].st = "done",
                                               !.runs[i].result =
                                                   IF told.raised THEN <<>>
                                                   ELSE out.result]})
    /\ UNCHANGED <<event_log_size, answer, default_timeout>>
    /\ UNCHANGED <<subs, scheduled, has_queue, queue, running, draining, waiters,
                   executor, loop, calls, stop, budget>>

(***************************************************************************)
(* ProcessPool.stop (bus.py 58-65) cancels the work the pool had not yet   *)
(* taken up: the awaiting _run_handler ends with CancelledError, which is  *)
(* no Exception, so nothing is recorded and gather keeps it as a result.   *)
(***************************************************************************)
HandlerCancelled(t, i) ==
    /\ t.pc = "gather"
    /\ i \in DOMAIN t.runs
    /\ t.runs[i].st = "run"
    /\ t.runs[i].via = "pool"
    /\ ~executor
    /\ tasks' = (tasks (-) SetToBag({t}))
                (+) SetToBag({[t EXCEPT !.runs[i].st = "cancelled"]})
    /\ UNCHANGED <<event_log_size, answer, default_timeout>>
    /\ UNCHANGED <<subs, error_callbacks, scheduled, has_queue, queue, running,
                   draining, waiters, executor, metrics, event_log, loop, calls, stop,
                   budget>>

(***************************************************************************)
(* Bus._dispatch, second part (bus.py 226-230): once every _run_handler of *)
(* the gather has ended, each result Envelope, in the order of the         *)
(* handlers, resolves a waiter or is put on the queue.                     *)
(***************************************************************************)
RECURSIVE FeedBack(_, _, _, _)
FeedBack(results, table, cs, q) ==
    IF results = <<>> THEN [calls |-> cs, queue |-> q]
    ELSE LET result == Head(results)
         IN  IF result = <<>> THEN FeedBack(Tail(results), table, cs, q)
             ELSE IF check_waiters(table, cs, result[1])
             THEN FeedBack(Tail(results), table, set_result(table, cs, result[1]), q)
             ELSE FeedBack(Tail(results), table, cs, Append(q, result[1]))

WithoutErrors(results) ==
    [i \in DOMAIN results |->
        IF results[i] # <<>> /\ is_error(results[i][1]) THEN <<>> ELSE results[i]]

DispatchFinishDropsErrors(t) ==
    /\ t.pc = "gather"
    /\ \A i \in DOMAIN t.runs : t.runs[i].st # "run"
    /\ LET fed == FeedBack(WithoutErrors([i \in DOMAIN t.runs |-> t.runs[i].result]),
                           waiters, calls, queue)
       IN  /\ calls' = fed.calls
           /\ queue' = fed.queue
    /\ tasks' = tasks (-) SetToBag({t})
    /\ UNCHANGED <<subs, error_callbacks, scheduled, has_queue, running, draining,
                   waiters, executor, metrics, event_log, loop, stop, budget,
                   event_log_size, answer, default_timeout>>

DispatchFinish(t) ==
    /\ t.pc = "gather"
    /\ \A i \in DOMAIN t.runs : t.runs[i].st # "run"
    /\ LET fed == FeedBack([i \in DOMAIN t.runs |-> t.runs[i].result], waiters, calls,
                           queue)
       IN  /\ calls' = fed.calls
           /\ queue' = fed.queue
    /\ tasks' = tasks (-) SetToBag({t})
    /\ UNCHANGED <<event_log_size, answer, default_timeout>>
    /\ UNCHANGED <<subs, error_callbacks, scheduled, has_queue, running, draining,
                   waiters, executor, metrics, event_log, loop, stop, budget>>

(***************************************************************************)
(* Bus.request (bus.py 190-207).  The call registers its future, puts the  *)
(* Envelope and waits; it ends with the future's result or, when the       *)
(* timeout comes first, with a timeout Error Envelope.  The waiter key is  *)
(* popped from the table the bus holds at that moment.  The put comes      *)
(* before the try: on a bus that was never started the queue is None, the  *)
(* put raises and the finally clause is not reached.  wait_for gives the   *)
(* result when the future is done by the time the timeout is handled.  A   *)
(* call record keeps how the call ended.                                   *)
(***************************************************************************)
RequestCall(event_type, response_type) ==
    /\ Len(calls) < MaxRequest
    /\ LET envelope == create(event_type, "req", "", "", "", "", Uuid("r", Len(calls) + 1))
           wait_event == IF response_type = "" THEN event_type \o ".response"
                         ELSE response_type
           waiter_key == WaiterKey(wait_event, envelope.ctx.trace_id)
           call == [envelope |-> envelope, wait_event |-> wait_event,
                    waiter_key |-> waiter_key,
                    pc |-> IF has_queue THEN "wait" ELSE "raised",
                    future |-> PendingFuture, result |-> <<>>, how |-> ""]
       IN  /\ calls' = Append(calls, call)
           /\ waiters' = (waiter_key :> (Len(calls) + 1)) @@ waiters
           /\ queue' = IF has_queue THEN Append(queue, envelope) ELSE queue
    /\ UNCHANGED <<event_log_size, answer, default_timeout>>
    /\ UNCHANGED <<subs, error_callbacks, scheduled, has_queue, running, draining,
                   executor, metrics, event_log, loop, tasks, stop, budget>>

RequestReturn(c) ==
    /\ calls[c].pc = "wait"
    /\ calls[c].future.done
    /\ calls' = [calls EXCEPT ![c].pc = "returned", ![c].result = calls[c].future.result,
                              ![c].how = "result"]
    /\ waiters' = Pop(waiters, calls[c].waiter_key)
    /\ UNCHANGED <<event_log_size, answer, default_timeout>>
    /\ UNCHANGED <<subs, error_callbacks, scheduled, has_queue, queue, running,
                   draining, executor, metrics, event_log, loop, tasks, stop, budget>>

RequestTimeout(c) ==
    /\ calls[c].pc = "wait"
    /\ ~calls[c].future.done
    /\ calls' = [calls EXCEPT ![c].pc = "returned",
                              ![c].future = CancelledFuture,
                              ![c].result = <<error_from(calls[c].envelope, "timeout",
                                                         "bus.request")>>,
                              ![c].how = "timeout"]
    /\ waiters' = Pop(waiters, calls[c].waiter_key)
    /\ UNCHANGED <<event_log_size, answer, default_timeout>>
    /\ UNCHANGED <<subs, error_callbacks, scheduled, has_queue, queue, running,
                   draining, executor, metrics, event_log, loop, tasks, stop, budget>>

(***************************************************************************)
(* Bus.stop (bus.py 311-337).  stop.elapsed is the time stop() has slept   *)
(* since it was called; time.time() at the deadline test is that time.     *)
(***************************************************************************)
Min(a, b) == IF a < b THEN a ELSE b

Pending(table, cs) ==
    {c \in DOMAIN cs : (\E k \in DOMAIN table : table[k] = c) /\ ~cs[c].future.done}

ShutdownEnvelope(uuid) ==
    error_from(create("shutdown", "{}", "", "", "", "", uuid), "shutdown", "bus")

ShutdownNothing(table, cs) == cs

\* bus.py 330-334: every future of the table that is not done gets its own Envelope.
Shutdown(table, cs) ==
    [c \in DOMAIN cs |->
        IF c \in Pending(table, cs)
        THEN [cs[c] EXCEPT !.future = ResolvedFuture(ShutdownEnvelope(Uuid("x", c)))]
        ELSE cs[c]]

KeepDrainingWithoutDeadline(q, now, deadline) == q # <<>>

\* bus.py 325: the drain loop goes on while this holds.
KeepDraining(q, now, deadline) == q # <<>> /\ now < deadline

\* bus.py 329-337
StopEnd(s, elapsed, b) ==
    /\ draining' = FALSE
    /\ calls' = Shutdown(waiters, calls)
    /\ waiters' = <<>>
    /\ executor' = FALSE
    /\ stop' = [s EXCEPT !.pc = "returned", !.elapsed = elapsed,
                         !.on_running = FALSE, !.queued = <<>>]
    /\ budget' = b

\* bus.py 320-323
StopDrain(s, b) ==
    IF ~has_queue
    THEN /\ stop' = [s EXCEPT !.pc = "raised", !.on_running = FALSE, !.queued = <<>>]
         /\ budget' = b
         /\ UNCHANGED <<draining, calls, waiters, executor>>
    ELSE IF queue # <<>>
    THEN /\ draining' = TRUE
         /\ stop' = [s EXCEPT !.pc = "pause"]
         /\ budget' = b
         /\ UNCHANGED <<calls, waiters, executor>>
    ELSE StopEnd(s, 0, b)

\* bus.py 325-328
StopWait(elapsed, deadline) ==
    IF KeepDraining(queue, elapsed, deadline)
    THEN /\ stop' = [stop EXCEPT !.pc = "poll", !.elapsed = elapsed, !.deadline = deadline]
         /\ UNCHANGED <<draining, calls, waiters, executor, budget>>
    ELSE StopEnd(stop, elapsed, budget)

StopCallWithoutCancel(drain_timeout) ==
    /\ stop.pc \in {"idle", "returned", "raised"}
    /\ budget.stop < MaxStop
    /\ running' = FALSE
    /\ LET s == [NoStop EXCEPT !.drain_timeout = drain_timeout,
                                !.on_running = running /\ loop = "get",
                                !.queued = IF has_queue THEN queue ELSE <<>>]
       IN  StopDrain(s, [budget EXCEPT !.stop = @ + 1])
    /\ UNCHANGED <<subs, error_callbacks, scheduled, has_queue, queue, metrics,
                   event_log, loop, tasks, event_log_size, answer, default_timeout>>

\* bus.py 312-319: cancelling a sleeping scheduled task is awaited.
StopCall(drain_timeout) ==
    /\ stop.pc \in {"idle", "returned", "raised"}
    /\ budget.stop < MaxStop
    /\ running' = FALSE
    /\ scheduled' = [i \in DOMAIN scheduled |->
                        IF scheduled[i].task = "sleeping"
                        THEN [scheduled[i] EXCEPT !.task = "done"] ELSE scheduled[i]]
    /\ LET s == [NoStop EXCEPT !.drain_timeout = drain_timeout,
                                !.on_running = running /\ loop = "get",
                                !.queued = IF has_queue THEN queue ELSE <<>>]
       IN  IF \E i \in DOMAIN scheduled : scheduled[i].task = "sleeping"
           THEN /\ stop' = [s EXCEPT !.pc = "cancel"]
                /\ budget' = [budget EXCEPT !.stop = @ + 1]
                /\ UNCHANGED <<draining, calls, waiters, executor>>
           ELSE StopDrain(s, [budget EXCEPT !.stop = @ + 1])
    /\ UNCHANGED <<event_log_size, answer, default_timeout>>
    /\ UNCHANGED <<subs, error_callbacks, has_queue, queue, metrics, event_log, loop,
                   tasks>>

StopCancelled ==
    /\ stop.pc = "cancel"
    /\ StopDrain(stop, budget)
    /\ UNCHANGED <<event_log_size, answer, default_timeout>>
    /\ UNCHANGED <<subs, error_callbacks, scheduled, has_queue, queue, running, metrics,
                   event_log, loop, tasks>>

\* bus.py 323-324: the first sleep, then the deadline is set.
StopPause ==
    /\ stop.pc = "pause"
    /\ LET now == stop.elapsed + Min(stop.drain_timeout, DrainPause)
       IN  StopWait(now, now + stop.drain_timeout)
    /\ UNCHANGED <<event_log_size, answer, default_timeout>>
    /\ UNCHANGED <<subs, error_callbacks, scheduled, has_queue, queue, running, metrics,
                   event_log, loop, tasks>>

\* bus.py 326: one polling sleep.
StopPoll ==
    /\ stop.pc = "poll"
    /\ StopWait(stop.elapsed + PollStep, stop.deadline)
    /\ UNCHANGED <<event_log_size, answer, default_timeout>>
    /\ UNCHANGED <<subs, error_callbacks, scheduled, has_queue, queue, running, metrics,
                   event_log, loop, tasks>>

(***************************************************************************)
(* The bus with its callers: handlers registered and an error callback set *)
(* before start(), then publish, request and stop in any order, and a      *)
(* start() again once the dispatch loop has exited.  The traffic is on     *)
(* "test.event" and "test.result"; "other.event" has no subscriber.        *)
(***************************************************************************)
PublishInputs == {"test.result", "other.event"}

RequestInputs == {<<"test.event", "test.result">>}

Kinds == {"struct", "raise", "hang"}

DrainTimeout == 3

Next ==
    \/ Register
    \/ OnError
    \/ Start
    \/ LoopGet
    \/ LoopTimeout
    \/ \E e \in PublishInputs, tr \in {""} \cup KnownTraces : Publish(e, tr)
    \/ \E t \in BagToSet(tasks) : DispatchStart(t)
    \/ \E t \in BagToSet(tasks), i \in 1..Len(Catalog), k \in Kinds : HandlerDone(t, i, k)
    \/ \E t \in BagToSet(tasks) : DispatchFinish(t)
    \/ \E in \in RequestInputs : RequestCall(in[1], in[2])
    \/ \E c \in DOMAIN calls : RequestReturn(c)
    \/ \E c \in DOMAIN calls : RequestTimeout(c)
    \/ StopCall(DrainTimeout)
    \/ StopPause
    \/ StopPoll

Spec == Init /\ [][Next]_vars

(***************************************************************************)
(* What a step did.  Taken(t): the _dispatch task t, not yet run, ran its  *)
(* first part in this step.                                                *)
(***************************************************************************)
Taken(t) == t.pc = "new" /\ CopiesIn(t, tasks') < CopiesIn(t, tasks)

Resolves(envelope) ==
    \E c \in DOMAIN calls :
        /\ ~calls[c].future.done
        /\ calls'[c].future = ResolvedFuture(envelope)

FansOut(t) == tasks' # tasks (-) SetToBag({t})

Ended(c) == calls[c].pc \in {"returned", "raised"}

(***************************************************************************)
(* C1.  Waiter priority: an Envelope taken up by a _dispatch task while a  *)
(* request() waits, unresolved, for its (event type, trace id) resolves    *)
(* that waiter and starts no handler, and no Envelope both resolves a      *)
(* waiter and is fanned out.                                               *)
(***************************************************************************)
C1_WaiterPriority ==
    [][\A t \in BagToSet(tasks) :
          Taken(t) =>
             /\ Awaited(t.envelope) =>
                   /\ Resolves(t.envelope)
                   /\ ~FansOut(t)
                   /\ metrics' = metrics
             /\ ~(Resolves(t.envelope) /\ FansOut(t))]_vars

\* A request was answered by an Envelope published on "test.result", to which
\* AuditHandler subscribes, and AuditHandler never ran.
C1_Witness ==
    \E c \in DOMAIN calls :
        /\ calls[c].future.result # <<>>
        /\ calls[c].future.result[1].event_type = "test.result"
        /\ calls[c].future.result[1].ctx.source = ""
        /\ Subscribers("test.result") # <<>>
        /\ metrics.processed["AuditHandler"] = 0

(***************************************************************************)
(* C3.  A waiting request() on whose future no Envelope was set ends by    *)
(* its timeout: the step that ends it returns (it does not raise) an Error *)
(* Envelope with code "timeout", event type "<event_type>.error" and the   *)
(* trace id of the request.                                                *)
(***************************************************************************)
C3_RequestTimeout ==
    [][\A c \in DOMAIN calls :
          (calls[c].pc = "wait" /\ calls'[c].pc # "wait" /\ calls[c].future.result = <<>>) =>
              /\ calls'[c].pc = "returned"
              /\ calls'[c].result # <<>>
              /\ calls'[c].result[1].error # <<>>
              /\ calls'[c].result[1].error[1].code = "timeout"
              /\ calls'[c].result[1].event_type = calls[c].envelope.event_type \o ".error"
              /\ calls'[c].result[1].ctx.trace_id = calls[c].envelope.ctx.trace_id]_vars

\* A request on a started bus timed out while its Envelope was still being handled.
C3_Witness ==
    \E c \in DOMAIN calls :
        /\ calls[c].pc = "returned"
        /\ calls[c].how = "timeout"
        /\ running
        /\ tasks # EmptyBag

(***************************************************************************)
(* C4.  Once a request() call has ended (by a response, by its timeout, by *)
(* shutdown or by raising), the waiter table holds no entry under the      *)
(* call's key, whatever starts, stops, publishes and requests came before. *)
(***************************************************************************)
C4_WaiterRemoved ==
    \A c \in DOMAIN calls : Ended(c) => calls[c].waiter_key \notin DOMAIN waiters

(***************************************************************************)
(* The bus under fair scheduling of its own coroutines: the event loop     *)
(* runs every task that is ready and fires every timer that is due, so the *)
(* start() loop takes its turns (a queued Envelope is got, the 0.5 s wait  *)
(* ends), a sleeping stop() wakes up, an awaited cancellation comes back   *)
(* and a request() whose future is done returns.  Callers owe nothing:     *)
(* publish, request, start and stop may never come.  Here the bus also     *)
(* has a scheduled entry, and stop() is called with each drain timeout.    *)
(***************************************************************************)
LiveKinds == {"struct"}

LiveNext ==
    \/ Register
    \/ OnError
    \/ Schedule
    \/ Start
    \/ LoopGet
    \/ LoopTimeout
    \/ \E i \in DOMAIN scheduled : SchedFire(i)
    \/ \E t \in BagToSet(tasks) : DispatchStart(t)
    \/ \E t \in BagToSet(tasks), i \in 1..Len(Catalog), k \in LiveKinds : HandlerDone(t, i, k)
    \/ \E t \in BagToSet(tasks) : DispatchFinish(t)
    \/ \E in \in RequestInputs : RequestCall(in[1], in[2])
    \/ \E c \in DOMAIN calls : RequestReturn(c)
    \/ \E c \in DOMAIN calls : RequestTimeout(c)
    \/ \E d \in DrainTimeouts : StopCall(d)
    \/ StopCancelled
    \/ StopPause
    \/ StopPoll

LiveSpec ==
    /\ Init
    /\ [][LiveNext]_vars
    /\ WF_vars(LoopGet)
    /\ WF_vars(LoopTimeout)
    /\ WF_vars(StopCancelled)
    /\ WF_vars(StopPause)
    /\ WF_vars(StopPoll)
    /\ WF_vars(\E c \in DOMAIN calls : RequestReturn(c))

(***************************************************************************)
(* The bus of the request/response tests: it is started and never          *)
(* stopped, every handler's process returns its Struct, and no request     *)
(* timeout elapses.  Besides the requests there is published traffic on    *)
(* "test.event" and "other.event".  Every task of the event loop that is   *)
(* ready runs.                                                             *)
(***************************************************************************)
EchoPublishInputs == {"test.event", "other.event"}

EchoRequestInputs == {<<"test.event", "test.result">>, <<"calc.heavy", "calc.result">>}

EchoNext ==
    \/ Register
    \/ OnError
    \/ Start
    \/ LoopGet
    \/ LoopTimeout
    \/ \E e \in EchoPublishInputs : Publish(e, "")
    \/ \E t \in BagToSet(tasks) : DispatchStart(t)
    \/ \E t \in BagToSet(tasks), i \in 1..Len(Catalog) : HandlerDone(t, i, "struct")
    \/ \E t \in BagToSet(tasks) : DispatchFinish(t)
    \/ \E in \in EchoRequestInputs : RequestCall(in[1], in[2])
    \/ \E c \in DOMAIN calls : RequestReturn(c)

EchoSpec ==
    /\ Init
    /\ [][EchoNext]_vars
    /\ WF_vars(LoopGet)
    /\ WF_vars(\E t \in BagToSet(tasks) : DispatchStart(t))
    /\ WF_vars(\E t \in BagToSet(tasks), i \in 1..Len(Catalog) : HandlerDone(t, i, "struct"))
    /\ WF_vars(\E t \in BagToSet(tasks) : DispatchFinish(t))
    /\ WF_vars(\E c \in DOMAIN calls : RequestReturn(c))

(***************************************************************************)
(* C2.  Under EchoSpec: a request(E, "req", response_type = R) that waits  *)
(* on the started bus, where the handler subscribed to E forwards to R,    *)
(* eventually returns the Envelope that handler produced: event type R,    *)
(* the trace id of the request, the payload "echo:req", no Error.          *)
(***************************************************************************)
C2_RequestResponse ==
    \A c \in 1..MaxRequest :
        (c \in DOMAIN calls /\ calls[c].pc = "wait")
        ~> (/\ c \in DOMAIN calls
            /\ calls[c].pc = "returned"
            /\ calls[c].result # <<>>
            /\ calls[c].result[1].event_type = calls[c].wait_event
            /\ calls[c].result[1].ctx.trace_id = calls[c].envelope.ctx.trace_id
            /\ calls[c].result[1].payload = "echo:" \o calls[c].envelope.payload
            /\ calls[c].result[1].error = <<>>)

\* A request on "calc.heavy" got HeavyHandler's "calc.result" back from the pool.
C2_Witness ==
    \E c \in DOMAIN calls :
        /\ calls[c].pc = "returned"
        /\ calls[c].envelope.event_type = "calc.heavy"
        /\ calls[c].result[1].event_type = "calc.result"
        /\ calls[c].result[1].ctx.source = "HeavyHandler"
        /\ metrics.processed["HeavyHandler"] = 1

(***************************************************************************)
(* C5.  The step in which stop() passes its waiter-resolution step and     *)
(* returns sets, on the future of every waiter of the table that is not    *)
(* done, an Error Envelope with code "shutdown" and leaves the table       *)
(* empty; under LiveSpec the request() that owns such a future then        *)
(* returns that Envelope.                                                  *)
(***************************************************************************)
StopReturns == stop'.pc = "returned" /\ (stop.pc # "returned" \/ budget'.stop # budget.stop)

InTable(c) == \E k \in DOMAIN waiters : waiters[k] = c

IsShutdown(result) ==
    /\ result # <<>>
    /\ result[1].error # <<>>
    /\ result[1].error[1].code = "shutdown"

C5_ShutdownResolvesWaiters ==
    /\ [][StopReturns =>
            /\ \A c \in DOMAIN calls :
                  (InTable(c) /\ ~calls[c].future.done) =>
                      (calls'[c].future.done /\ IsShutdown(calls'[c].future.result))
            /\ waiters' = <<>>]_vars
    /\ \A c \in 1..MaxRequest :
          (c \in DOMAIN calls /\ calls[c].pc = "wait" /\ IsShutdown(calls[c].future.result))
          ~> (c \in DOMAIN calls /\ calls[c].pc = "returned" /\ IsShutdown(calls[c].result))

\* A request that was waiting for "test.result" returned the shutdown Envelope
\* while MockHandler had not yet been run for it.
C5_Witness ==
    \E c \in DOMAIN calls :
        /\ calls[c].pc = "returned"
        /\ IsShutdown(calls[c].result)
        /\ calls[c].result[1].event_type = "shutdown.error"
        /\ metrics.processed["MockHandler"] = 0
        /\ stop.pc = "returned"
        /\ waiters = <<>>

(***************************************************************************)
(* C6.  stop(drain_timeout) has never slept longer than drain_timeout plus *)
(* the initial pause and one polling step, and under LiveSpec a stop()     *)
(* that was called has eventually ended, whatever is, stays or comes back  *)
(* in the queue.                                                           *)
(***************************************************************************)
C6_StopTerminates ==
    /\ [](stop.elapsed <= stop.drain_timeout + DrainPause + PollStep)
    /\ (stop.pc \in {"cancel", "pause", "poll"}) ~> (stop.pc \in {"returned", "raised"})

\* stop() gave up on a queue that was still not empty after its deadline.
C6_Witness ==
    /\ stop.pc = "returned"
    /\ queue # <<>>
    /\ stop.drain_timeout > 0
    /\ stop.elapsed > stop.drain_timeout

(***************************************************************************)
(* C7.  Drain delivery: when stop(), called on a running bus, returns from *)
(* its drain because the queue is empty, before its deadline, every        *)
(* Envelope that was in the queue when it was called has been taken up by  *)
(* its _dispatch task (waiter resolution or fan-out).                      *)
(***************************************************************************)
BeforeDeadline ==
    IF stop.pc = "pause" THEN stop.drain_timeout > 0
    ELSE stop.elapsed + PollStep < stop.deadline

NotDispatched(envelope) ==
    \/ \E n \in DOMAIN queue : queue[n] = envelope
    \/ \E t \in BagToSet(tasks) : t.pc = "new" /\ t.envelope = envelope

C7_DrainDelivery ==
    [][(/\ stop.pc \in {"pause", "poll"}
        /\ stop'.pc = "returned"
        /\ stop.on_running
        /\ queue = <<>>
        /\ BeforeDeadline) =>
           \A n \in DOMAIN stop.queued : ~NotDispatched(stop.queued[n])]_vars

(***************************************************************************)
(* C8.  Under LiveSpec: once stop() has been called on a running bus, the  *)
(* start() coroutine eventually returns, whatever is queued or in flight.  *)
(***************************************************************************)
C8_LoopExits == (loop = "get" /\ ~running) ~> (loop = "exited")

\* The loop has exited and left an Envelope in the queue and a handler in flight.
C8_Witness ==
    /\ loop = "exited"
    /\ stop.pc = "returned"
    /\ queue # <<>>
    /\ \E t \in BagToSet(tasks) : t.pc = "gather"

(***************************************************************************)
(* C9.  A handler of execution mode "main" whose process does not complete *)
(* within its timeout: the invocation ends with an Error Envelope with     *)
(* code "timeout", event type "<original event type>.error" and the trace  *)
(* id of the inbound Envelope, and the handler's error counter goes up by  *)
(* exactly 1 (no other handler's does).                                    *)
(***************************************************************************)
TimedOut(t, i) ==
    /\ i \in DOMAIN t.runs
    /\ t.runs[i].handler.execution_mode = "main"
    /\ HandlerDone(t, i, "hang")

C9_HandlerTimeout ==
    [][\A t \in BagToSet(tasks), i \in 1..Len(Catalog) :
          TimedOut(t, i) =>
              /\ \E u \in BagToSet(tasks') :
                    /\ u.envelope = t.envelope
                    /\ i \in DOMAIN u.runs
                    /\ u.runs[i].st = "done"
                    /\ u.runs[i].result # <<>>
                    /\ u.runs[i].result[1].error # <<>>
                    /\ u.runs[i].result[1].error[1].code = "timeout"
                    /\ u.runs[i].result[1].event_type = t.envelope.event_type \o ".error"
                    /\ u.runs[i].result[1].ctx.trace_id = t.envelope.ctx.trace_id
              /\ \A n \in Names :
                    metrics'.errors[n] = metrics.errors[n]
                                         + (IF n = t.runs[i].handler.name THEN 1 ELSE 0)]_vars

\* MockHandler timed out on a "test.event": one error counted, the callback called.
C9_Witness ==
    /\ metrics.errors["MockHandler"] = 1
    /\ Len(error_callbacks) = 1
    /\ error_callbacks[1].called = 1
    /\ \E t \in BagToSet(tasks) :
          /\ t.pc = "gather"
          /\ t.envelope.event_type = "test.event"
          /\ t.runs[1].st = "done"
          /\ t.runs[1].result[1].event_type = "test.event.error"
          /\ t.runs[1].result[1].error[1].code = "timeout"

(***************************************************************************)
(* C10.  An Envelope whose event type has no registered handler and that   *)
(* no request() awaits: its _dispatch task ends in its first part, no      *)
(* handler is started, no metrics counter changes, no error callback is    *)
(* called and nothing is put on the queue.                                 *)
(***************************************************************************)
C10_UnsubscribedTopic ==
    [][\A t \in BagToSet(tasks) :
          (/\ Taken(t)
           /\ \A topic \in DOMAIN subs : topic = t.envelope.event_type => subs[topic] = <<>>
           /\ ~Awaited(t.envelope)) =>
              /\ tasks' = tasks (-) SetToBag({t})
              /\ metrics' = metrics
              /\ error_callbacks' = error_callbacks
              /\ queue' = queue
              /\ calls' = calls]_vars

\* An "other.event" was published and dispatched; nothing was counted or left over.
C10_Witness ==
    /\ event_log # <<>>
    /\ event_log[Len(event_log)].event_type = "other.event"
    /\ subs["other.event"] = <<>>
    /\ budget.publish = 1
    /\ tasks = EmptyBag
    /\ queue = <<>>
    /\ \A n \in Names : metrics.processed[n] = 0

(***************************************************************************)
(* C11.  Every step changes metrics.processed by exactly the invocation    *)
(* that completed in it: when the i-th _run_handler of a _dispatch task    *)
(* ends (with a result, a failure or a timeout), the processed counter of  *)
(* that handler's name goes up by 1 and no other counter moves; in every   *)
(* other step no processed counter moves.                                  *)
(***************************************************************************)
Completion(t, i) ==
    /\ t.pc = "gather"
    /\ i \in DOMAIN t.runs
    /\ t.runs[i].st = "run"
    /\ CopiesIn(t, tasks') < CopiesIn(t, tasks)
    /\ \E u \in BagToSet(tasks') :
          /\ u.pc = "gather"
          /\ u.envelope = t.envelope
          /\ DOMAIN u.runs = DOMAIN t.runs
          /\ u.runs[i].st = "done"
          /\ \A j \in DOMAIN t.runs : j # i => u.runs[j] = t.runs[j]

CompletedFor(n) ==
    \E t \in BagToSet(tasks), i \in 1..Len(Catalog) :
        Completion(t, i) /\ t.runs[i].handler.name = n

C11_ProcessedCount ==
    [][\A n \in Names :
          metrics'.processed[n] = metrics.processed[n] + (IF CompletedFor(n) THEN 1 ELSE 0)]_vars

\* MockHandler was invoked once and failed: the invocation is counted as processed.
C11_Witness ==
    /\ metrics.processed["MockHandler"] = 1
    /\ metrics.errors["MockHandler"] = 1
    /\ metrics.processed["AuditHandler"] = 0

(***************************************************************************)
(* EventLog.recent (bus.py 129-135).  A filter that is None or "" is not   *)
(* applied; items[-n:] is Python's slice: it starts at index -n counted    *)
(* from the end, at 0 when -n is 0 or lies before the first item.          *)
(***************************************************************************)
RECURSIVE Filter(_, _, _)
Filter(items, key, wanted) ==
    IF items = <<>> THEN <<>>
    ELSE IF Head(items)[key] = wanted
         THEN <<Head(items)>> \o Filter(Tail(items), key, wanted)
         ELSE Filter(Tail(items), key, wanted)

SliceLast(items, n) ==
    LET start == IF n = 0 \/ n > Len(items) THEN 0 ELSE Len(items) - n
    IN  SubSeq(items, start + 1, Len(items))

recent(buffer, n, event_type, trace_id) ==
    LET by_type == IF event_type # "" THEN Filter(buffer, "event_type", event_type)
                   ELSE buffer
        by_trace == IF trace_id # "" THEN Filter(by_type, "trace_id", trace_id)
                    ELSE by_type
    IN  SliceLast(by_trace, n)

Recent(n, event_type, trace_id) ==
    /\ answer' = [call |-> "recent", args |-> <<n, event_type, trace_id>>, raised |-> "",
                  value |-> recent(event_log, n, event_type, trace_id)]
    /\ UNCHANGED <<subs, error_callbacks, scheduled, has_queue, queue, running, draining,
                   waiters, executor, metrics, event_log, loop, tasks, calls, stop,
                   budget, event_log_size, default_timeout>>

(***************************************************************************)
(* The bus of test_bus_metrics_and_log: a Bus with some event_log_size is  *)
(* started, an Envelope is published, every handler returns its Struct,    *)
(* and the event log is read with recent() at any moment.                  *)
(***************************************************************************)
LogSizes == {0, 1, 2, 4}

LogPublishInputs == {"test.event", "other.event"}

RecentCounts == 0..3

RecentTypes == {"", "test.event", "test.result"}

RecentTraces == {"", "p1"}

LogInit == \E max_size \in LogSizes : BusInit(DefaultTimeout, max_size)

LogNext ==
    \/ Register
    \/ OnError
    \/ Start
    \/ LoopGet
    \/ LoopTimeout
    \/ \E e \in LogPublishInputs : Publish(e, "")
    \/ \E t \in BagToSet(tasks) : DispatchStart(t)
    \/ \E t \in BagToSet(tasks), i \in 1..Len(Catalog) : HandlerDone(t, i, "struct")
    \/ \E t \in BagToSet(tasks) : DispatchFinish(t)
    \/ \E n \in RecentCounts, e \in RecentTypes, tr \in RecentTraces : Recent(n, e, tr)

LogSpec == LogInit /\ [][LogNext]_vars

(***************************************************************************)
(* C12.  One entry per Envelope touched: once a published "test.event" has *)
(* gone through MockHandler and everything it led to has been dispatched,  *)
(* an event log that is not full holds exactly one entry for "test.event"  *)
(* and exactly one for "test.result", both with ok = TRUE.                 *)
(***************************************************************************)
EntriesOf(event_type) == {n \in DOMAIN event_log : event_log[n].event_type = event_type}

Quiet == queue = <<>> /\ tasks = EmptyBag

C12_OneEntryPerEnvelope ==
    (/\ Quiet
     /\ metrics.processed["MockHandler"] = 1
     /\ Len(event_log) < event_log_size) =>
        /\ Cardinality(EntriesOf("test.event")) = 1
        /\ Cardinality(EntriesOf("test.result")) = 1
        /\ \A n \in DOMAIN event_log : event_log[n].ok

(***************************************************************************)
(* C13.  The event log never holds more records than its capacity, and an  *)
(* insertion (that of the Envelope a _dispatch task takes up, and any      *)
(* other) leaves min(length + 1, capacity) records: the records that were  *)
(* there, in their order, followed by the new one, less the oldest when    *)
(* the log was full.                                                       *)
(***************************************************************************)
Newest(buffer) == buffer[Len(buffer)]

LastOf(items, n) == SubSeq(items, Len(items) - n + 1, Len(items))

Inserted(entry) ==
    event_log' = LastOf(Append(event_log, entry), Min(Len(event_log) + 1, event_log_size))

C13_EventLogBounded ==
    /\ [](Len(event_log) <= event_log_size)
    /\ [][/\ \A t \in BagToSet(tasks) :
                  Taken(t) => Inserted(LogEntry(t.envelope, "", TRUE))
          /\ event_log' # event_log => Inserted(Newest(event_log'))]_vars

\* A log of capacity 2 is full and its oldest record, the "test.event", is gone.
C13_Witness ==
    /\ event_log_size = 2
    /\ Len(event_log) = 2
    /\ event_log[1].event_type = "test.result"
    /\ event_log[2].event_type = "test.result"
    /\ event_log[2].handler = ""

(***************************************************************************)
(* C14.  recent(n, event_type, trace_id), for every n >= 0 and every       *)
(* filter, gives the last min(n, k) of the k buffered records that match   *)
(* the filters, in insertion order, and never more than n records.         *)
(***************************************************************************)
Matches(entry, event_type, trace_id) ==
    /\ event_type # "" => entry.event_type = event_type
    /\ trace_id # "" => entry.trace_id = trace_id

RECURSIVE Matching(_, _, _)
Matching(items, event_type, trace_id) ==
    IF items = <<>> THEN <<>>
    ELSE (IF Matches(Head(items), event_type, trace_id) THEN <<Head(items)>> ELSE <<>>)
         \o Matching(Tail(items), event_type, trace_id)

C14_RecentN ==
    \A n \in RecentCounts, e \in RecentTypes, tr \in RecentTraces :
        LET matching == Matching(event_log, e, tr)
            got == recent(event_log, n, e, tr)
        IN  /\ got = LastOf(matching, Min(n, Len(matching)))
            /\ Len(got) <= n

(***************************************************************************)
(* Bus.publish (bus.py 178-188) with any arguments.  An argument is a      *)
(* value tagged with its Python type; None is the data a call leaves out.  *)
(* A msgspec.Struct is true, None is not.  An Envelope argument is named   *)
(* by the trace id it was built with.                                      *)
(***************************************************************************)
None == [type |-> "NoneType", value |-> ""]

Str(s) == [type |-> "str", value |-> s]

Number(n) == [type |-> "int", value |-> ToString(n)]

Struct(s) == [type |-> "Struct", value |-> s]

Built(trace_id) == [type |-> "Envelope", value |-> trace_id]

Prebuilt(trace_id) ==
    IF trace_id = "b1"
    THEN create("test.event", "built", "client", trace_id, "", "", "")
    ELSE error_from(create("other.event", "built", "client", trace_id, "", "", ""),
                    "timeout", "client")

Truthy(x) ==
    CASE x.type = "NoneType" -> FALSE
      [] x.type = "str" -> x.value # ""
      [] x.type = "int" -> x.value # "0"
      [] OTHER -> TRUE

\* The branch publish takes: 1 and 2 put an Envelope, 3 raises ValueError.
PublishBranchAnyString(event_or_envelope, data) ==
    IF event_or_envelope.type = "Envelope" THEN 1
    ELSE IF event_or_envelope.type = "str" THEN 2
    ELSE 3

PublishBranch(event_or_envelope, data) ==
    IF event_or_envelope.type = "Envelope" THEN 1
    ELSE IF event_or_envelope.type = "str" /\ Truthy(data) THEN 2
    ELSE 3

PublishCall(event_or_envelope, data) ==
    LET branch == PublishBranch(event_or_envelope, data)
        envelope == IF branch = 1 THEN Prebuilt(event_or_envelope.value)
                    ELSE create(event_or_envelope.value, data.value, "", "", "", "",
                                Uuid("p", budget.publish + 1))
    IN  /\ branch # 3 => budget.publish < MaxPublish
        /\ answer' = [call |-> "publish", args |-> <<event_or_envelope, data>>,
                      raised |-> IF branch = 3 THEN "ValueError"
                                 ELSE IF ~has_queue THEN "AttributeError"
                                 ELSE "",
                      value |-> <<>>]
        /\ queue' = IF branch # 3 /\ has_queue THEN Append(queue, envelope) ELSE queue
        /\ budget' = IF branch # 3 THEN [budget EXCEPT !.publish = @ + 1] ELSE budget
        /\ UNCHANGED <<subs, error_callbacks, scheduled, has_queue, running, draining,
                       waiters, executor, metrics, event_log, loop, tasks, calls, stop,
                       event_log_size, default_timeout>>

(***************************************************************************)
(* A bus with the handlers of the tests on which publish is called with    *)
(* every shape of arguments, before and after start().                     *)
(***************************************************************************)
PublishFirsts ==
    {Built("b1"), Built("b2"),
     Str("test.event"), Str("other.event"), Str(""), Number(42), None,
     Struct("hello")}

PublishDatas == {None, Struct("hello"), Struct("")}

ArgNext ==
    \/ Register
    \/ OnError
    \/ Start
    \/ LoopGet
    \/ LoopTimeout
    \/ \E a \in PublishFirsts, d \in PublishDatas : PublishCall(a, d)
    \/ \E t \in BagToSet(tasks) : DispatchStart(t)
    \/ \E t \in BagToSet(tasks), i \in 1..Len(Catalog) : HandlerDone(t, i, "struct")
    \/ \E t \in BagToSet(tasks) : DispatchFinish(t)

ArgSpec == Init /\ [][ArgNext]_vars

(***************************************************************************)
(* C15.  A publish() call whose first argument is neither an Envelope nor  *)
(* a string with a payload raises ValueError and leaves the queue as it    *)
(* was; a call with an Envelope, or with a string and a payload, on a bus  *)
(* that has been started raises nothing and appends exactly one Envelope   *)
(* to the queue: the one given, or one with that event type and payload.   *)
(***************************************************************************)
PublishCalled(a, d) ==
    /\ answer'.call = "publish"
    /\ answer'.args = <<a, d>>
    /\ answer' # answer \/ budget' # budget

C15_PublishArguments ==
    [][\A a \in PublishFirsts, d \in PublishDatas :
         PublishCalled(a, d) =>
           IF a.type = "Envelope"
           THEN has_queue => answer'.raised = "" /\ queue' = Append(queue, Prebuilt(a.value))
           ELSE IF a.type = "str" /\ d.type = "Struct"
           THEN has_queue =>
                  /\ answer'.raised = ""
                  /\ Len(queue') = Len(queue) + 1
                  /\ SubSeq(queue', 1, Len(queue)) = queue
                  /\ queue'[Len(queue')].event_type = a.value
                  /\ queue'[Len(queue')].payload = d.value
           ELSE answer'.raised = "ValueError" /\ queue' = queue]_vars

C15_Witness ==
    /\ has_queue
    /\ budget.publish = 1
    /\ answer.call = "publish"
    /\ answer.raised = "ValueError"
    /\ answer.args = <<Str("test.event"), None>>
    /\ Len(queue) = 1
    /\ queue[1].event_type = "other.event"

(***************************************************************************)
(* Bus.register (bus.py 165-169) with any handler of the catalog, in any   *)
(* order and more than once: a topic may have many registrations.          *)
(***************************************************************************)
RegisterAny(i) ==
    /\ Configuring
    /\ budget.registered < Len(Catalog)
    /\ LET handler == register(Catalog[i], default_timeout)
       IN  subs' = [subs EXCEPT ![handler.subscribes_to] = Append(@, handler)]
    /\ budget' = [budget EXCEPT !.registered = @ + 1]
    /\ UNCHANGED <<error_callbacks, scheduled, has_queue, queue, running, draining,
                   waiters, executor, metrics, event_log, loop, tasks, calls, stop,
                   event_log_size, answer, default_timeout>>

(***************************************************************************)
(* Bus.validate_graph (bus.py 339-355).  The keys of the subscription      *)
(* table are the topics register() appended a handler to.  The warnings    *)
(* come in the iteration order of a set of strings, which is any order.    *)
(* The namespaces the method collects afterwards are not used.             *)
(***************************************************************************)
Subscribed(table) == {event_type \in DOMAIN table : table[event_type] # <<>>}

AllHandlers(table) ==
    UNION {{table[event_type][i] : i \in DOMAIN table[event_type]} :
              event_type \in Subscribed(table)}

PublishedWithEmpty(table) == {h.publishes : h \in AllHandlers(table)}

Published(table) == {h.publishes : h \in {g \in AllHandlers(table) : g.publishes # ""}}

Warning(d) == "event '" \o d \o "' published but no handler subscribes"

Orderings(S) ==
    {order \in [1..Cardinality(S) -> S] : \A d \in S : \E i \in DOMAIN order : order[i] = d}

validate_graph(table) ==
    {[i \in DOMAIN order |-> Warning(order[i])] :
        order \in Orderings(Published(table) \ Subscribed(table))}

ValidateGraph ==
    /\ \E warnings \in validate_graph(subs) :
          answer' = [call |-> "validate_graph", args |-> <<>>, raised |-> "",
                     value |-> warnings]
    /\ UNCHANGED <<subs, error_callbacks, scheduled, has_queue, queue, running, draining,
                   waiters, executor, metrics, event_log, loop, tasks, calls, stop,
                   budget, event_log_size, default_timeout>>

(***************************************************************************)
(* A bus that is being configured: handlers are registered in any order,   *)
(* and the graph is validated at any moment (app.py 36 does it before the  *)
(* bus starts).                                                            *)
(***************************************************************************)
GraphNext ==
    \/ \E i \in DOMAIN Catalog : RegisterAny(i)
    \/ OnError
    \/ ValidateGraph
    \/ Start

GraphSpec == Init /\ [][GraphNext]_vars

(***************************************************************************)
(* C16.  validate_graph() returns one warning for each topic that a        *)
(* registered handler publishes and no registered handler subscribes to,   *)
(* the warning naming the topic, and nothing else; the list is empty       *)
(* exactly when every published topic has a subscriber; the bus is left    *)
(* as it was.                                                              *)
(***************************************************************************)
Registered == UNION {{subs[topic][i] : i \in DOMAIN subs[topic]} : topic \in DOMAIN subs}

Dangling ==
    {d \in Topics : /\ \E h \in Registered : h.publishes = d
                    /\ ~\E h \in Registered : h.subscribes_to = d}

C16_ValidateGraph ==
    [][answer'.call = "validate_graph" /\ answer' # answer =>
         LET warnings == answer'.value
         IN  /\ Len(warnings) = Cardinality(Dangling)
             /\ \A d \in Dangling : \E i \in DOMAIN warnings : warnings[i] = Warning(d)
             /\ \A i \in DOMAIN warnings : \E d \in Dangling : warnings[i] = Warning(d)
             /\ warnings = <<>> <=>
                  \A h \in Registered :
                     h.publishes # "" => \E g \in Registered : g.subscribes_to = h.publishes
             /\ UNCHANGED <<subs, error_callbacks, scheduled, has_queue, queue, running,
                            draining, waiters, executor, metrics, event_log, loop, tasks,
                            calls, stop, budget, event_log_size, default_timeout>>]_vars

C16_Witness ==
    /\ answer.call = "validate_graph"
    /\ answer.value = <<Warning("calc.result")>>
    /\ Len(subs["test.event"]) = 1
    /\ Len(subs["test.result"]) = 1
    /\ Len(subs["calc.heavy"]) = 1

(***************************************************************************)
(* A bus with any three registrations and error callbacks of either kind,  *)
(* started, on which one Envelope is published; each handler invoked ends  *)
(* in any of the ways a process can.  Nothing but the handlers puts        *)
(* further Envelopes on the queue, so every step the loop, a dispatch or a *)
(* handler can take is taken in the end.                                   *)
(***************************************************************************)
FanPublishInputs == {"test.event", "calc.heavy", "other.event"}

FanKinds == {"struct", "raise", "raise_timeout", "hang"}

FanNext ==
    \/ \E i \in DOMAIN Catalog : RegisterAny(i)
    \/ \E raises \in BOOLEAN : OnErrorAny(raises)
    \/ Start
    \/ LoopGet
    \/ LoopTimeout
    \/ \E e \in FanPublishInputs : Publish(e, "")
    \/ \E t \in BagToSet(tasks) : DispatchStart(t)
    \/ \E t \in BagToSet(tasks), i \in 1..Len(Catalog), k \in FanKinds : HandlerDone(t, i, k)
    \/ \E t \in BagToSet(tasks) : DispatchFinish(t)

FanSpec ==
    /\ Init
    /\ [][FanNext]_vars
    /\ WF_vars(LoopGet)
    /\ WF_vars(\E t \in BagToSet(tasks) : DispatchStart(t))
    /\ WF_vars(\E t \in BagToSet(tasks), i \in 1..Len(Catalog) : HandlerDone(t, i, "struct"))
    /\ WF_vars(\E t \in BagToSet(tasks) : DispatchFinish(t))

(***************************************************************************)
(* C17.  Fan-out: a _dispatch task that takes up an Envelope which         *)
(* resolves no waiter starts exactly one _run_handler for each             *)
(* registration on the Envelope's event type, in registration order, and   *)
(* none for a handler registered on another event type; a _run_handler     *)
(* that has ended is not run again.                                        *)
(***************************************************************************)
RegistrationsOn(event_type) ==
    IF event_type \in DOMAIN subs THEN Len(subs[event_type]) ELSE 0

StartsOnePerRegistration(t) ==
    LET n == RegistrationsOn(t.envelope.event_type)
    IN  IF n = 0
        THEN tasks' = tasks (-) SetToBag({t})
        ELSE \E u \in BagToSet(tasks') :
                /\ tasks' = (tasks (-) SetToBag({t})) (+) SetToBag({u})
                /\ u.pc = "gather"
                /\ u.envelope = t.envelope
                /\ DOMAIN u.runs = 1..n
                /\ \A i \in 1..n :
                      /\ u.runs[i].handler = subs[t.envelope.event_type][i]
                      /\ u.runs[i].handler.subscribes_to = t.envelope.event_type
                      /\ u.runs[i].st = "run"

NeverRunAgain ==
    \A t \in BagToSet(tasks), u \in BagToSet(tasks') :
        (/\ CopiesIn(t, tasks') < CopiesIn(t, tasks)
         /\ CopiesIn(u, tasks') > CopiesIn(u, tasks)
         /\ t.pc = "gather") =>
            \A i \in DOMAIN t.runs : t.runs[i].st = "done" => u.runs[i] = t.runs[i]

C17_FanOut ==
    [][/\ \A t \in BagToSet(tasks) :
           (Taken(t) /\ ~check_waiters(waiters, calls, t.envelope))
               => StartsOnePerRegistration(t)
       /\ NeverRunAgain]_vars

C17_Witness ==
    /\ Quiet
    /\ Len(subs["test.event"]) = 2
    /\ Len(subs["test.result"]) = 1
    /\ metrics.processed["MockHandler"] = 2
    /\ metrics.errors["MockHandler"] = 1
    /\ metrics.processed["AuditHandler"] = 1
    /\ metrics.processed["HeavyHandler"] = 0

(***************************************************************************)
(* C18.  Handler failure isolation: a _run_handler whose process raises    *)
(* ends with an Error Envelope of code "handler_error" and event type      *)
(* "<original>.error", adds one to the handler's error count, and leaves   *)
(* the other _run_handlers of the gather, the queue and the loop as they   *)
(* were; the other handlers then run to completion and an Envelope that is *)
(* on the queue is still dequeued.                                         *)
(***************************************************************************)
Raises == {"raise", "raise_timeout"}

RaisedIn(t, i) == \E kind \in Raises : HandlerDone(t, i, kind)

ConvertedToHandlerError(t, i) ==
    \E u \in BagToSet(tasks') :
        /\ tasks' = (tasks (-) SetToBag({t})) (+) SetToBag({u})
        /\ u.pc = "gather"
        /\ DOMAIN u.runs = DOMAIN t.runs
        /\ u.runs[i].st = "done"
        /\ u.runs[i].result # <<>>
        /\ is_error(u.runs[i].result[1])
        /\ u.runs[i].result[1].error[1].code = "handler_error"
        /\ u.runs[i].result[1].event_type = t.envelope.event_type \o ".error"
        /\ \A j \in DOMAIN t.runs : j # i => u.runs[j] = t.runs[j]

C18_FailureIsolation ==
    /\ [][\A t \in BagToSet(tasks), i \in 1..Len(Catalog) :
            RaisedIn(t, i) =>
               /\ ConvertedToHandlerError(t, i)
               /\ metrics'.errors[t.runs[i].handler.name]
                     = metrics.errors[t.runs[i].handler.name] + 1
               /\ UNCHANGED <<queue, loop, running>>]_vars
    /\ \A n \in 1..Len(Catalog) :
          (\E t \in BagToSet(tasks) :
              /\ t.pc = "gather"
              /\ Len(t.runs) = n
              /\ \E i \in 1..n : t.runs[i].st = "done" /\ t.runs[i].result # <<>>
                                 /\ is_error(t.runs[i].result[1])
              /\ \A i \in 1..n : t.runs[i].handler.execution_mode = "main")
          ~> (tasks = EmptyBag)
    /\ (loop = "get" /\ queue # <<>>) ~> (queue = <<>>)

(***************************************************************************)
(* C19.  Error callbacks: when a _run_handler ends in a failure or a       *)
(* timeout, every registered callback is called exactly once with the      *)
(* Error Envelope, in registration order, whether or not a callback        *)
(* raises; the Error Envelope is still the result of the run and, when the *)
(* gather is over, is put on the queue; no other step calls a callback.    *)
(***************************************************************************)
FailedIn(t, i) ==
    /\ Completion(t, i)
    /\ metrics'.errors[t.runs[i].handler.name]
          = metrics.errors[t.runs[i].handler.name] + 1

ErrorsOf(t, i) ==
    {error_from(t.envelope, code, t.runs[i].handler.name) :
        code \in {"timeout", "handler_error"}}

EachCalledOnceInOrder(err) ==
    /\ Len(error_callbacks') = Len(error_callbacks)
    /\ \A k \in DOMAIN error_callbacks :
          /\ error_callbacks'[k].raises = error_callbacks[k].raises
          /\ error_callbacks'[k].called = error_callbacks[k].called + 1
          /\ error_callbacks'[k].got = <<err>>
          /\ error_callbacks'[k].at = CallsMade(error_callbacks) + k

Returned(t, i, err) ==
    \E u \in BagToSet(tasks') :
        /\ CopiesIn(u, tasks') > CopiesIn(u, tasks)
        /\ i \in DOMAIN u.runs
        /\ u.runs[i].result = <<err>>

Propagated(t) ==
    \A i \in DOMAIN t.runs :
        (t.runs[i].result # <<>> /\ is_error(t.runs[i].result[1]))
            => \E k \in DOMAIN queue' : k > Len(queue) /\ queue'[k] = t.runs[i].result[1]

C19_ErrorCallbacks ==
    [][/\ \A t \in BagToSet(tasks), i \in 1..Len(Catalog) :
             FailedIn(t, i) =>
                \E err \in ErrorsOf(t, i) :
                    EachCalledOnceInOrder(err) /\ Returned(t, i, err)
       /\ (\A t \in BagToSet(tasks), i \in 1..Len(Catalog) : ~FailedIn(t, i))
             => \A k \in DOMAIN error_callbacks :
                   k \in DOMAIN error_callbacks' /\ error_callbacks'[k] = error_callbacks[k]
       /\ \A t \in BagToSet(tasks) :
             (/\ t.pc = "gather"
              /\ \A i \in DOMAIN t.runs : t.runs[i].st = "done"
              /\ tasks' = tasks (-) SetToBag({t})
              /\ waiters = <<>>) => Propagated(t)]_vars

C19_Witness ==
    /\ Len(error_callbacks) = 2
    /\ error_callbacks[1].raises
    /\ ~error_callbacks[2].raises
    /\ error_callbacks[1].called = 2
    /\ error_callbacks[2].called = 2
    /\ error_callbacks[1].at = 3
    /\ error_callbacks[2].at = 4
    /\ error_callbacks[2].got # <<>>
    /\ error_callbacks[2].got[1].error[1].code = "handler_error"
    /\ \E k \in DOMAIN queue : queue[k].event_type = "test.event.error"
                               /\ queue[k].error[1].code = "timeout"

(***************************************************************************)
(* C20.  Trace id preservation: the Envelope a _run_handler ends with, be  *)
(* it the forward of the handler's Struct, a timeout error or a            *)
(* handler_error, and the timeout error a request() returns, carry the     *)
(* trace id of the Envelope they were derived from; an error one has the   *)
(* event type "<original event type>.error", an Error with that trace id,  *)
(* and the original payload.                                               *)
(***************************************************************************)
DerivedFrom(original, derived) ==
    /\ derived.ctx.trace_id = original.ctx.trace_id
    /\ is_error(derived) =>
          /\ derived.event_type = original.event_type \o ".error"
          /\ derived.error[1].trace_id = original.ctx.trace_id
          /\ derived.payload = original.payload

C20_TracePreserved ==
    [][/\ \A t \in BagToSet(tasks), i \in 1..Len(Catalog) :
             Completion(t, i) =>
                \A u \in BagToSet(tasks') :
                    (/\ CopiesIn(u, tasks') > CopiesIn(u, tasks)
                     /\ i \in DOMAIN u.runs
                     /\ u.runs[i].result # <<>>)
                        => DerivedFrom(t.envelope, u.runs[i].result[1])
       /\ \A c \in DOMAIN calls :
             (calls[c].pc = "wait" /\ calls'[c].how = "timeout")
                => /\ calls'[c].result # <<>>
                   /\ is_error(calls'[c].result[1])
                   /\ DerivedFrom(calls[c].envelope, calls'[c].result[1])]_vars

C20_Witness ==
    /\ \E c \in DOMAIN calls :
          /\ calls[c].how = "timeout"
          /\ calls[c].result[1].ctx.trace_id = "r1"
          /\ calls[c].result[1].error[1].trace_id = "r1"
    /\ \E t \in BagToSet(tasks) :
          /\ t.pc = "gather"
          /\ t.envelope.ctx.trace_id = "r1"
          /\ t.envelope.event_type = "test.result"
          /\ t.envelope.payload = "echo:req"
          /\ t.runs[1].st = "done"
          /\ t.runs[1].result # <<>>
          /\ t.runs[1].result[1].error[1].code = "handler_error"
          /\ t.runs[1].result[1].ctx.trace_id = "r1"

(***************************************************************************)
(* C21.  Envelope invariant: no Envelope that publish() or request() has   *)
(* put on the queue has an empty event type.                               *)
(***************************************************************************)
C21_EventTypeNeverEmpty ==
    \A k \in DOMAIN queue : queue[k].event_type # ""

(***************************************************************************)
(* C22.  FIFO: whatever is put on the queue is appended at its end, the    *)
(* only Envelope that leaves the queue is its head, and the _dispatch task *)
(* created in that step is the one of that head; so the tasks are created  *)
(* in the order the Envelopes were enqueued.  Nothing orders the ends of   *)
(* the tasks.                                                              *)
(***************************************************************************)
Created(t) == t.pc = "new" /\ CopiesIn(t, tasks') > CopiesIn(t, tasks)

C22_FifoDequeue ==
    [][/\ Len(queue') >= Len(queue) => SubSeq(queue', 1, Len(queue)) = queue
       /\ Len(queue') < Len(queue) =>
             /\ queue' = Tail(queue)
             /\ tasks' = tasks (+) SetToBag({NewTask(Head(queue))})
       /\ \A t \in BagToSet(tasks') :
             Created(t) => queue # <<>> /\ t.envelope = Head(queue) /\ queue' = Tail(queue)]_vars

\* The Envelope of a request on "test.event" is still with its handler while
\* the dispatch of a published "other.event" has come and gone.
C22_Witness ==
    /\ queue = <<>>
    /\ event_log # <<>>
    /\ event_log[Len(event_log)].event_type = "other.event"
    /\ \E t \in BagToSet(tasks) :
          /\ t.pc = "gather"
          /\ t.envelope.event_type = "test.event"
          /\ t.envelope.ctx.trace_id = "r1"
          /\ t.runs[1].st = "run"

(***************************************************************************)
(* C23.  On a bus that is started and never stopped every Envelope on the  *)
(* queue is eventually taken up by a _dispatch task; it leaves the queue   *)
(* in one step that creates one task; and the task's first part resolves   *)
(* the waiter that awaits the Envelope, or else starts one _run_handler    *)
(* per handler subscribed to its event type, or else, with no subscriber,  *)
(* drops it.                                                               *)
(***************************************************************************)
EchoTraces ==
    {Uuid("p", n) : n \in 1..MaxPublish} \cup {Uuid("r", n) : n \in 1..MaxRequest}

Queued(event_type, trace_id) ==
    \E k \in DOMAIN queue :
        queue[k].event_type = event_type /\ queue[k].ctx.trace_id = trace_id

TakenUp(event_type, trace_id) ==
    /\ event_log # <<>>
    /\ event_log[Len(event_log)].event_type = event_type
    /\ event_log[Len(event_log)].trace_id = trace_id
    /\ event_log[Len(event_log)].handler = ""

C23_EventuallyDispatched ==
    /\ \A event_type \in Topics, trace_id \in EchoTraces :
          Queued(event_type, trace_id) ~> TakenUp(event_type, trace_id)
    /\ [][/\ Len(queue') < Len(queue) =>
                /\ queue' = Tail(queue)
                /\ tasks' = tasks (+) SetToBag({NewTask(Head(queue))})
          /\ \A t \in BagToSet(tasks) :
                Taken(t) =>
                   IF Awaited(t.envelope)
                   THEN Resolves(t.envelope) /\ tasks' = tasks (-) SetToBag({t})
                   ELSE /\ calls' = calls
                        /\ IF RegistrationsOn(t.envelope.event_type) > 0
                           THEN StartsOnePerRegistration(t)
                           ELSE tasks' = tasks (-) SetToBag({t})]_vars

C23_Witness ==
    /\ queue = <<>>
    /\ tasks = EmptyBag
    /\ TakenUp("other.event", "p1")
    /\ \E c \in DOMAIN calls :
          /\ calls[c].pc = "returned"
          /\ calls[c].how = "result"
          /\ calls[c].envelope.event_type = "test.event"
    /\ metrics.processed["MockHandler"] = 1

(***************************************************************************)
(* A started bus with any three registrations on which one Envelope is     *)
(* published and every process returns: a Struct, an Envelope of its own   *)
(* or None.                                                                *)
(***************************************************************************)
ResultPublishInputs == {"test.event", "test.result"}

ResultKinds == {"struct", "envelope", "none"}

ResultNext ==
    \/ \E i \in DOMAIN Catalog : RegisterAny(i)
    \/ OnError
    \/ Start
    \/ LoopGet
    \/ LoopTimeout
    \/ \E e \in ResultPublishInputs : Publish(e, "")
    \/ \E t \in BagToSet(tasks) : DispatchStart(t)
    \/ \E t \in BagToSet(tasks), i \in 1..Len(Catalog), k \in ResultKinds :
          HandlerDone(t, i, k)
    \/ \E t \in BagToSet(tasks) : DispatchFinish(t)

ResultSpec == Init /\ [][ResultNext]_vars

(***************************************************************************)
(* C24.  Handler result semantics, for a handler invoked in-process: a     *)
(* Struct result is forwarded as a new Envelope under the handler's        *)
(* publishes, with the trace id of the inbound Envelope, and gives nothing *)
(* when publishes is empty; an Envelope result is the result as it is,     *)
(* whatever publishes says; None gives no Envelope.  Each of them is a     *)
(* success: processed + 1, errors and error callbacks unchanged.  When the *)
(* gather is over exactly the Envelopes that resulted are put on the       *)
(* queue.                                                                  *)
(***************************************************************************)
NewResults(t, i) ==
    {u.runs[i].result :
        u \in {v \in BagToSet(tasks') :
                  CopiesIn(v, tasks') > CopiesIn(v, tasks) /\ i \in DOMAIN v.runs}}

Succeeded(h) ==
    /\ metrics'.processed[h.name] = metrics.processed[h.name] + 1
    /\ metrics'.errors = metrics.errors
    /\ error_callbacks' = error_callbacks

RECURSIVE Envelopes(_)
Envelopes(results) ==
    IF results = <<>> THEN <<>>
    ELSE Head(results) \o Envelopes(Tail(results))

C24_ResultSemantics ==
    [][/\ \A t \in BagToSet(tasks), i \in 1..Len(Catalog) :
            (i \in DOMAIN t.runs /\ t.runs[i].via = "main") =>
               LET h == t.runs[i].handler
               IN  /\ HandlerDone(t, i, "struct") =>
                         /\ Succeeded(h)
                         /\ h.publishes = "" => NewResults(t, i) = {<<>>}
                         /\ h.publishes # "" =>
                               \A r \in NewResults(t, i) :
                                  /\ Len(r) = 1
                                  /\ r[1].event_type = h.publishes
                                  /\ r[1].payload = "echo:" \o t.envelope.payload
                                  /\ r[1].ctx.trace_id = t.envelope.ctx.trace_id
                                  /\ r[1].ctx.source = h.name
                                  /\ ~is_error(r[1])
                   /\ HandlerDone(t, i, "envelope") =>
                         /\ Succeeded(h)
                         /\ \A r \in NewResults(t, i) :
                               /\ Len(r) = 1
                               /\ r[1].event_type = t.envelope.event_type \o ".response"
                               /\ r[1].payload = "own:" \o t.envelope.payload
                   /\ HandlerDone(t, i, "none") =>
                         Succeeded(h) /\ NewResults(t, i) = {<<>>}
       /\ \A t \in BagToSet(tasks) :
            (/\ t.pc = "gather"
             /\ \A i \in DOMAIN t.runs : t.runs[i].st = "done"
             /\ tasks' = tasks (-) SetToBag({t})
             /\ waiters = <<>>)
                => queue' = queue \o Envelopes([i \in DOMAIN t.runs |-> t.runs[i].result])]_vars

\* Two MockHandlers on "test.event": one returned an Envelope of its own,
\* one a Struct; both Envelopes are on the queue, in the handlers' order.
C24_Witness ==
    /\ tasks = EmptyBag
    /\ Len(subs["test.event"]) = 2
    /\ Len(queue) = 2
    /\ queue[1].event_type = "test.event.response"
    /\ queue[1].payload = "own:hello"
    /\ queue[2].event_type = "test.result"
    /\ queue[2].payload = "echo:hello"
    /\ metrics.processed["MockHandler"] = 2
    /\ metrics.errors["MockHandler"] = 0

(***************************************************************************)
(* A handler instance whose subscribes_to was set before registration, as  *)
(* Domain.setup does (domain.py 24-25), registered by Bus.register         *)
(* (bus.py 165-169).                                                       *)
(***************************************************************************)
RegisterOn(i, event_type) ==
    /\ Configuring
    /\ budget.registered < Len(Catalog)
    /\ LET handler == register([Catalog[i] EXCEPT !.subscribes_to = event_type],
                               default_timeout)
       IN  subs' = [subs EXCEPT ![handler.subscribes_to] = Append(@, handler)]
    /\ budget' = [budget EXCEPT !.registered = @ + 1]
    /\ UNCHANGED <<error_callbacks, scheduled, has_queue, queue, running, draining,
                   waiters, executor, metrics, event_log, loop, tasks, calls, stop,
                   event_log_size, answer, default_timeout>>

(***************************************************************************)
(* A started bus whose handlers fail: MockHandler on "test.event" and two  *)
(* AuditHandlers on "test.event.error", registered in this order, one      *)
(* publish of "test.event" and one request on it that waits for            *)
(* "test.event.error".  Every task of the event loop that is ready runs; a *)
(* request may time out at any moment.                                     *)
(***************************************************************************)
ErrRegistrations == <<<<1, "test.event">>, <<2, "test.event.error">>, <<2, "test.event.error">>>>

ErrPublishInputs == {"test.event"}

ErrRequestInputs == {<<"test.event", "test.event.error">>}

ErrKinds == {"struct", "raise", "hang"}

ErrNext ==
    \/ \E n \in DOMAIN ErrRegistrations :
          /\ n = budget.registered + 1
          /\ RegisterOn(ErrRegistrations[n][1], ErrRegistrations[n][2])
    \/ OnError
    \/ Start
    \/ LoopGet
    \/ LoopTimeout
    \/ \E e \in ErrPublishInputs : Publish(e, "")
    \/ \E t \in BagToSet(tasks) : DispatchStart(t)
    \/ \E t \in BagToSet(tasks), i \in 1..Len(Catalog), k \in ErrKinds : HandlerDone(t, i, k)
    \/ \E t \in BagToSet(tasks) : DispatchFinish(t)
    \/ \E in \in ErrRequestInputs : RequestCall(in[1], in[2])
    \/ \E c \in DOMAIN calls : RequestReturn(c)
    \/ \E c \in DOMAIN calls : RequestTimeout(c)

ErrSpec ==
    /\ Init
    /\ [][ErrNext]_vars
    /\ WF_vars(LoopGet)
    /\ WF_vars(\E t \in BagToSet(tasks) : DispatchStart(t))
    /\ WF_vars(\E t \in BagToSet(tasks), i \in 1..Len(Catalog), k \in ErrKinds :
                  HandlerDone(t, i, k))
    /\ WF_vars(\E t \in BagToSet(tasks) : DispatchFinish(t))
    /\ WF_vars(\E c \in DOMAIN calls : RequestReturn(c))

(***************************************************************************)
(* C25.  Error Envelopes re-enter the pipeline.  A handler that fails or   *)
(* times out on an Envelope of event type E gives an Error Envelope of     *)
(* type "E.error" with the trace id of that Envelope.  When the gather is  *)
(* over, each Error Envelope among its results resolves a request that     *)
(* waits for ("E.error", trace id) or is appended to the queue.  An Error  *)
(* Envelope on the queue is eventually taken up by a _dispatch task, and   *)
(* the task treats it as any Envelope: one _run_handler per handler        *)
(* subscribed to "E.error", unless a waiter takes it.                      *)
(***************************************************************************)
GatherOver(t) ==
    /\ t.pc = "gather"
    /\ \A i \in DOMAIN t.runs : t.runs[i].st # "run"
    /\ tasks' = tasks (-) SetToBag({t})

Appended(envelope) ==
    \E k \in (Len(queue) + 1)..Len(queue') : queue'[k] = envelope

FannedOut(event_type, trace_id) ==
    /\ TakenUp(event_type, trace_id)
    /\ \/ RegistrationsOn(event_type) = 0
       \/ \E t \in BagToSet(tasks) :
             /\ t.pc = "gather"
             /\ t.envelope.event_type = event_type
             /\ t.envelope.ctx.trace_id = trace_id
             /\ DOMAIN t.runs = 1..RegistrationsOn(event_type)
             /\ \A i \in DOMAIN t.runs : t.runs[i].handler = subs[event_type][i]

C25_ErrorsReenter ==
    /\ \A trace_id \in EchoTraces :
          Queued("test.event.error", trace_id) ~> FannedOut("test.event.error", trace_id)
    /\ [][/\ \A t \in BagToSet(tasks), i \in 1..Len(Catalog), k \in {"raise", "hang"} :
                HandlerDone(t, i, k) =>
                   \A r \in NewResults(t, i) :
                      /\ Len(r) = 1
                      /\ is_error(r[1])
                      /\ r[1].event_type = t.envelope.event_type \o ".error"
                      /\ r[1].ctx.trace_id = t.envelope.ctx.trace_id
          /\ \A t \in BagToSet(tasks) :
                GatherOver(t) =>
                   \A i \in DOMAIN t.runs :
                      LET r == t.runs[i].result
                      IN  (r # <<>> /\ is_error(r[1])) =>
                             \/ Awaited(r[1]) /\ Resolves(r[1])
                             \/ Appended(r[1])
          /\ \A t \in BagToSet(tasks) :
                (Taken(t) /\ is_error(t.envelope)) =>
                   IF Awaited(t.envelope)
                   THEN Resolves(t.envelope) /\ ~FansOut(t)
                   ELSE StartsOnePerRegistration(t)]_vars

\* MockHandler failed on the published Envelope and on the one of the request:
\* the request got "test.event.error" as its result and the AuditHandlers on
\* "test.event.error" were both run on the other Error Envelope.
C25_Witness ==
    /\ tasks = EmptyBag
    /\ queue = <<>>
    /\ Len(subs["test.event"]) = 1
    /\ Len(subs["test.event.error"]) = 2
    /\ metrics.errors["MockHandler"] = 2
    /\ metrics.processed["AuditHandler"] = 2
    /\ metrics.errors["AuditHandler"] = 0
    /\ \E c \in DOMAIN calls :
          /\ calls[c].pc = "returned"
          /\ calls[c].how = "result"
          /\ is_error(calls[c].result[1])
          /\ calls[c].result[1].event_type = "test.event.error"
          /\ calls[c].result[1].ctx.trace_id = calls[c].envelope.ctx.trace_id

(***************************************************************************)
(* A bus with one schedule, started, stopped and possibly started again.   *)
(* The event loop fires every timer that is due: the sleep of a scheduled  *)
(* task ends, the start() loop takes its turns and stop() wakes up.        *)
(***************************************************************************)
SchedNext ==
    \/ Register
    \/ OnError
    \/ Schedule
    \/ Start
    \/ LoopGet
    \/ LoopTimeout
    \/ \E i \in DOMAIN scheduled : SchedFire(i)
    \/ \E t \in BagToSet(tasks) : DispatchStart(t)
    \/ StopCall(DrainTimeout)
    \/ StopCancelled
    \/ StopPause
    \/ StopPoll

SchedSpec ==
    /\ Init
    /\ [][SchedNext]_vars
    /\ WF_vars(LoopGet)
    /\ WF_vars(LoopTimeout)
    /\ WF_vars(\E i \in DOMAIN scheduled : SchedFire(i))
    /\ WF_vars(StopCancelled)
    /\ WF_vars(StopPause)
    /\ WF_vars(StopPoll)

(***************************************************************************)
(* C26.  A schedule registered before start() has a task from start() on:  *)
(* while the bus is running each end of its sleep puts exactly one         *)
(* Envelope of its event type, from its source, on the queue, and the next *)
(* end of a sleep always comes.  stop() cancels the task: when stop() has  *)
(* returned no scheduled task is asleep, and while the bus is not running  *)
(* nothing from a scheduler is put on the queue.  A later start() begins   *)
(* a new lifetime with new tasks.                                          *)
(***************************************************************************)
FromScheduler(q) == {k \in DOMAIN q : q[k].ctx.source = "scheduler"}

Ticked(i) ==
    /\ scheduled[i].task = "sleeping"
    /\ running
    /\ budget'.fire = budget.fire + 1

C26_Schedule ==
    /\ \A n \in 0..(MaxSchedFire - 1) :
          (/\ running
           /\ budget.fire = n
           /\ \E i \in DOMAIN scheduled : scheduled[i].task = "sleeping")
             ~> (budget.fire > n \/ ~running)
    /\ [](stop.pc = "returned" /\ ~running =>
             \A i \in DOMAIN scheduled : scheduled[i].task # "sleeping")
    /\ [](loop = "none" => \A i \in DOMAIN scheduled : scheduled[i].task = "none")
    /\ [][/\ \A i \in DOMAIN scheduled :
                Ticked(i) =>
                   /\ Len(queue') = Len(queue) + 1
                   /\ SubSeq(queue', 1, Len(queue)) = queue
                   /\ queue'[Len(queue')].event_type = scheduled[i].event_type
                   /\ queue'[Len(queue')].ctx.source = "scheduler"
          /\ (Start /\ scheduled # <<>>) =>
                \A i \in DOMAIN scheduled : scheduled'[i].task = "sleeping"
          /\ ~running =>
                Cardinality(FromScheduler(queue')) <= Cardinality(FromScheduler(queue))]_vars

\* The schedule ticked once, its Envelope was dispatched, and stop() has
\* returned with the task cancelled before a second tick.
C26_Witness ==
    /\ stop.pc = "returned"
    /\ ~running
    /\ scheduled # <<>>
    /\ scheduled[1].task = "done"
    /\ budget.fire = 1
    /\ queue = <<>>
    /\ event_log # <<>>
    /\ event_log[Len(event_log)].event_type = scheduled[1].event_type
    /\ event_log[Len(event_log)].source = "scheduler"

(***************************************************************************)
(* C27.  A handler with execution mode "process" whose process raises in   *)
(* the worker yields an Error Envelope whose error code is "worker_error". *)
(***************************************************************************)
Offloaded(t, i) == i \in DOMAIN t.runs /\ t.runs[i].handler.execution_mode = "process"

BusTimeouts == {DefaultTimeout, 5}

HandlerTimeouts == {DefaultTimeout, 1}

TimeoutPublishInputs == {"test.event"}

TimeoutKinds == {"struct", "hang"}

RegisterWith(i, timeout) ==
    /\ Configuring
    /\ budget.registered < Len(Catalog)
    /\ LET handler == register([Catalog[i] EXCEPT !.timeout = timeout], default_timeout)
       IN  subs' = [subs EXCEPT ![handler.subscribes_to] = Append(@, handler)]
    /\ budget' = [budget EXCEPT !.registered = @ + 1]
    /\ UNCHANGED <<error_callbacks, scheduled, has_queue, queue, running, draining,
                   waiters, executor, metrics, event_log, loop, tasks, calls, stop,
                   event_log_size, answer, default_timeout>>

TimeoutInit == \E handler_timeout \in BusTimeouts : BusInit(handler_timeout, EventLogSize)

TimeoutNext ==
    \/ \E i \in DOMAIN Catalog, timeout \in HandlerTimeouts : RegisterWith(i, timeout)
    \/ OnError
    \/ Start
    \/ LoopGet
    \/ LoopTimeout
    \/ \E e \in TimeoutPublishInputs : Publish(e, "")
    \/ \E t \in BagToSet(tasks) : DispatchStart(t)
    \/ \E t \in BagToSet(tasks), i \in 1..Len(Catalog), k \in TimeoutKinds :
          HandlerDone(t, i, k)
    \/ \E t \in BagToSet(tasks) : DispatchFinish(t)

TimeoutSpec == TimeoutInit /\ [][TimeoutNext]_vars

(***************************************************************************)
(* C28.  register(handler) gives the handler the timeout of the bus        *)
(* exactly when the handler carries the default timeout, 30, and the bus   *)
(* was built with another handler_timeout; otherwise the handler keeps its *)
(* own.  Nothing changes a registered handler or the bus's timeout later,  *)
(* and the timeout an in-process invocation is run under is the one the    *)
(* handler has had since its registration.                                 *)
(***************************************************************************)
LastRegistered(event_type) == subs'[event_type][Len(subs'[event_type])]

RegistrationsKept ==
    \A event_type \in Topics :
        /\ Len(subs'[event_type]) >= Len(subs[event_type])
        /\ SubSeq(subs'[event_type], 1, Len(subs[event_type])) = subs[event_type]

C28_RegisterTimeout ==
    [][/\ \A i \in DOMAIN Catalog, timeout \in HandlerTimeouts :
            RegisterWith(i, timeout) =>
               LET event_type == Catalog[i].subscribes_to
               IN  /\ Len(subs'[event_type]) = Len(subs[event_type]) + 1
                   /\ LastRegistered(event_type).name = Catalog[i].name
                   /\ LastRegistered(event_type).timeout =
                         IF timeout = 30 /\ default_timeout # 30 THEN default_timeout
                         ELSE timeout
       /\ RegistrationsKept
       /\ default_timeout' = default_timeout
       /\ \A t \in BagToSet(tasks), u \in BagToSet(tasks') :
            (Taken(t) /\ u.pc = "gather" /\ CopiesIn(u, tasks') > CopiesIn(u, tasks)) =>
               \A i \in DOMAIN u.runs :
                  u.runs[i].via = "main" =>
                     u.runs[i].timeout = <<subs[t.envelope.event_type][i].timeout>>]_vars

\* On a bus built with handler_timeout = 5 two MockHandlers were registered, one
\* that carried the default and one that carried 1: the first runs under 5, the
\* second under 1.
C28_Witness ==
    /\ default_timeout = 5
    /\ Len(subs["test.event"]) = 2
    /\ \E t \in BagToSet(tasks) :
          /\ t.pc = "gather"
          /\ t.envelope.event_type = "test.event"
          /\ DOMAIN t.runs = 1..2
          /\ t.runs[1].timeout = <<5>>
          /\ t.runs[2].timeout = <<1>>
          /\ t.runs[1].st = "done"
          /\ is_error(t.runs[1].result[1])
          /\ t.runs[1].result[1].error[1].code = "timeout"

(***************************************************************************)
(* A started bus whose handlers never come back from process.  Every task  *)
(* of the event loop that is ready runs, and every timer that is due       *)
(* fires: an invocation that can end, ends.                                *)
(***************************************************************************)
HangPublishInputs == {"test.event", "calc.heavy"}

HangKinds == {"hang"}

HangNext ==
    \/ \E i \in DOMAIN Catalog : RegisterAny(i)
    \/ \E raises \in BOOLEAN : OnErrorAny(raises)
    \/ Start
    \/ LoopGet
    \/ LoopTimeout
    \/ \E e \in HangPublishInputs : Publish(e, "")
    \/ \E t \in BagToSet(tasks) : DispatchStart(t)
    \/ \E t \in BagToSet(tasks), i \in 1..Len(Catalog), k \in HangKinds : HandlerDone(t, i, k)
    \/ \E t \in BagToSet(tasks) : DispatchFinish(t)

HangSpec ==
    /\ Init
    /\ [][HangNext]_vars
    /\ WF_vars(LoopGet)
    /\ WF_vars(\E t \in BagToSet(tasks) : DispatchStart(t))
    /\ WF_vars(\E t \in BagToSet(tasks), i \in 1..Len(Catalog), k \in HangKinds :
                  HandlerDone(t, i, k))
    /\ WF_vars(\E t \in BagToSet(tasks) : DispatchFinish(t))

(***************************************************************************)
(* C29.  A handler with execution mode "process" whose process does not    *)
(* complete within its timeout is also cut off: its invocation ends, so    *)
(* the dispatch of its Envelope always completes.                          *)
(***************************************************************************)
OffloadedRunning ==
    \E t \in BagToSet(tasks) :
        /\ t.pc = "gather"
        /\ \E i \in DOMAIN t.runs :
              t.runs[i].handler.execution_mode = "process" /\ t.runs[i].st = "run"

C29_OffloadedTimeout == OffloadedRunning ~> ~OffloadedRunning

(***************************************************************************)
(* Domain.setup (domain.py 17-30) for one handler of a domain: with a      *)
(* namespace, the instance's subscribes_to and publishes get the prefix    *)
(* "<namespace>." unless they are empty or have it already; then the       *)
(* instance is registered.                                                 *)
(***************************************************************************)
Namespaces == {"", "ns"}

StartsWith(topic, prefix) ==
    \E i \in DOMAIN Catalog :
        topic \in {prefix \o Catalog[i].subscribes_to, prefix \o Catalog[i].publishes}

Prefixed(namespace, topic) ==
    IF namespace # "" /\ topic # "" /\ ~StartsWith(topic, namespace \o ".")
    THEN namespace \o "." \o topic
    ELSE topic

DomainSetup(i, namespace) ==
    /\ Configuring
    /\ budget.registered < Len(Catalog)
    /\ LET handler ==
              register([Catalog[i] EXCEPT
                           !.subscribes_to = Prefixed(namespace, @),
                           !.publishes = Prefixed(namespace, @)],
                       default_timeout)
       IN  subs' = [subs EXCEPT ![handler.subscribes_to] = Append(@, handler)]
    /\ budget' = [budget EXCEPT !.registered = @ + 1]
    /\ UNCHANGED <<error_callbacks, scheduled, has_queue, queue, running, draining,
                   waiters, executor, metrics, event_log, loop, tasks, calls, stop,
                   event_log_size, answer, default_timeout>>

(***************************************************************************)
(* A started bus whose handlers were set up by domains with and without a  *)
(* namespace: MockHandler runs in-process, HeavyHandler in the pool.  Each *)
(* process returns a Struct or an Envelope of its own.                     *)
(***************************************************************************)
DomainHandlers == {1, 3}

DomainPublishInputs == {"test.event", "ns.test.event", "calc.heavy", "ns.calc.heavy"}

DomainKinds == {"struct", "envelope"}

DomainNext ==
    \/ \E i \in DomainHandlers, namespace \in Namespaces : DomainSetup(i, namespace)
    \/ OnError
    \/ Start
    \/ LoopGet
    \/ LoopTimeout
    \/ \E e \in DomainPublishInputs : Publish(e, "")
    \/ \E t \in BagToSet(tasks) : DispatchStart(t)
    \/ \E t \in BagToSet(tasks), i \in 1..Len(Catalog), k \in DomainKinds :
          HandlerDone(t, i, k)
    \/ \E t \in BagToSet(tasks) : DispatchFinish(t)

DomainSpec == Init /\ [][DomainNext]_vars

(***************************************************************************)
(* C30.  Offloaded execution is equivalent to in-process execution: the    *)
(* result of a handler run through the pool is the Envelope (event type,   *)
(* trace id, payload, error) that handle of the registered instance gives  *)
(* in-process, also when the instance's topics were prefixed before it was *)
(* registered.                                                             *)
(***************************************************************************)
SameEnvelope(a, b) ==
    /\ Len(a) = Len(b)
    /\ a # <<>> =>
          /\ a[1].event_type = b[1].event_type
          /\ a[1].ctx.trace_id = b[1].ctx.trace_id
          /\ a[1].payload = b[1].payload
          /\ a[1].error = b[1].error

C30_OffloadEquivalent ==
    [][\A t \in BagToSet(tasks), i \in 1..Len(Catalog), k \in DomainKinds :
          (Offloaded(t, i) /\ HandlerDone(t, i, k)) =>
             \A r \in NewResults(t, i) :
                SameEnvelope(r, handle(t.runs[i].handler, t.envelope, k))]_vars

(***************************************************************************)
(* A started bus on which an Envelope for the offloaded HeavyHandler or    *)
(* for the in-process AuditHandler is published, and whose processes       *)
(* return a Struct or nothing.                                             *)
(***************************************************************************)
TerminalPublishInputs == {"calc.heavy", "test.result"}

TerminalKinds == {"struct", "none"}

TerminalNext ==
    \/ \E i \in DOMAIN Catalog : RegisterAny(i)
    \/ OnError
    \/ Start
    \/ LoopGet
    \/ LoopTimeout
    \/ \E e \in TerminalPublishInputs : Publish(e, "")
    \/ \E t \in BagToSet(tasks) : DispatchStart(t)
    \/ \E t \in BagToSet(tasks), i \in 1..Len(Catalog), k \in TerminalKinds :
          HandlerDone(t, i, k)
    \/ \E t \in BagToSet(tasks) : DispatchFinish(t)

TerminalSpec == Init /\ [][TerminalNext]_vars

(***************************************************************************)
(* C31.  A handler with execution mode "process" whose process returns     *)
(* nothing is a terminal handler like an in-process one: the invocation is *)
(* a success (processed + 1, errors and error callbacks unchanged), it     *)
(* gives no Envelope, and when the gather is over nothing is put on the    *)
(* queue for it.                                                           *)
(***************************************************************************)
C31_TerminalOffloaded ==
    [][\A t \in BagToSet(tasks), i \in 1..Len(Catalog) :
          (Offloaded(t, i) /\ HandlerDone(t, i, "none")) =>
             /\ Succeeded(t.runs[i].handler)
             /\ NewResults(t, i) = {<<>>}
             /\ event_log' = event_log]_vars

(***************************************************************************)
(* A started bus with the offloaded HeavyHandler, on which "calc.heavy" is *)
(* published and stop() is called.  ProcessPool.stop cancels what the pool *)
(* had not taken up and lets the rest come to its end.                     *)
(***************************************************************************)
PoolPublishInputs == {"calc.heavy", "other.event"}

PoolKinds == {"struct"}

PoolNext ==
    \/ Register
    \/ OnError
    \/ Start
    \/ LoopGet
    \/ LoopTimeout
    \/ \E e \in PoolPublishInputs : Publish(e, "")
    \/ \E t \in BagToSet(tasks) : DispatchStart(t)
    \/ \E t \in BagToSet(tasks), i \in 1..Len(Catalog), k \in PoolKinds : HandlerDone(t, i, k)
    \/ \E t \in BagToSet(tasks), i \in 1..Len(Catalog) : HandlerCancelled(t, i)
    \/ \E t \in BagToSet(tasks) : DispatchFinish(t)
    \/ StopCall(DrainTimeout)
    \/ StopPause
    \/ StopPoll

PoolSpec == Init /\ [][PoolNext]_vars

(***************************************************************************)
(* C32.  A handler with execution mode "process" is executed only in a     *)
(* worker process of the pool: no invocation of such a handler runs inside *)
(* the main process.                                                       *)
(***************************************************************************)
C32_OnlyInPool ==
    \A t \in BagToSet(tasks) :
        \A i \in DOMAIN t.runs :
            t.runs[i].handler.execution_mode = "process" => t.runs[i].via = "pool"

(***************************************************************************)
(* C33.  What is queued when stop() has returned is dropped: from then on, *)
(* until the bus is started again, the start() loop takes no Envelope from *)
(* the queue, so no handler is invoked for an Envelope that was queued or  *)
(* is put on the queue after that point.                                   *)
(***************************************************************************)
Stopped == stop.pc = "returned" /\ ~running

C33_NothingAfterStop ==
    [][(Stopped /\ ~running') =>
          /\ Len(queue') >= Len(queue)
          /\ \A t \in BagToSet(tasks') : ~Created(t)]_vars

(***************************************************************************)
(* The transport's event handler (transport.py 30-45): a client message    *)
(* becomes an Envelope with source "ws:<sid>", the connection in the       *)
(* Context's extra, and the message's payload, the empty object when the   *)
(* message has none; the Envelope is published.                            *)
(***************************************************************************)
event(event_type, payload) ==
    /\ budget.publish < MaxPublish
    /\ queue' = IF has_queue
                THEN Append(queue, create(event_type, payload, "ws:conn-1", "", "",
                                          "conn-1", Uuid("p", budget.publish + 1)))
                ELSE queue
    /\ budget' = [budget EXCEPT !.publish = @ + 1]
    /\ UNCHANGED <<event_log_size, answer, default_timeout>>
    /\ UNCHANGED <<subs, error_callbacks, scheduled, has_queue, running, draining,
                   waiters, executor, metrics, event_log, loop, tasks, calls, stop>>

(***************************************************************************)
(* A started bus with any of the catalog's handlers, fed by the transport  *)
(* with payloads that decode into the handlers' input types and with the   *)
(* empty object, which does not.  A process that is called returns a       *)
(* Struct, raises TimeoutError or never returns.                           *)
(***************************************************************************)
DecodeEventInputs == {"test.event", "calc.heavy"}

DecodePayloads == {"hello", "{}"}

DecodeKinds == {"struct", "raise_timeout", "hang"}

DecodeNext ==
    \/ \E i \in 1..Len(Catalog) : RegisterAny(i)
    \/ OnError
    \/ Start
    \/ LoopGet
    \/ LoopTimeout
    \/ \E e \in DecodeEventInputs, p \in DecodePayloads : event(e, p)
    \/ \E t \in BagToSet(tasks) : DispatchStart(t)
    \/ \E t \in BagToSet(tasks), i \in 1..Len(Catalog), k \in DecodeKinds :
          HandlerDone(t, i, k)
    \/ \E t \in BagToSet(tasks) : DispatchFinish(t)

DecodeSpec == Init /\ [][DecodeNext]_vars

(***************************************************************************)
(* C34.  A payload decode failure is a handler_error: when the Envelope's  *)
(* payload does not decode into the input type of the handler, the         *)
(* invocation ends the same way whatever process would do (it is not       *)
(* called): its result is the Error Envelope "<event type>.error" with     *)
(* code "handler_error", source the handler, and the trace id of the       *)
(* Envelope, and the handler's processed and error counters each go up by  *)
(* one.                                                                    *)
(***************************************************************************)
Undecodable(t, i) ==
    /\ t.pc = "gather"
    /\ i \in DOMAIN t.runs
    /\ t.runs[i].st = "run"
    /\ t.runs[i].handler.input_type # ""
    /\ t.envelope.payload = "{}"

C34_DecodeFailure ==
    [][\A t \in BagToSet(tasks), i \in 1..Len(Catalog) :
          Undecodable(t, i) =>
             /\ \A k \in DecodeKinds : ENABLED HandlerDone(t, i, k)
             /\ \A k \in DecodeKinds :
                   HandlerDone(t, i, k) =>
                      LET name == t.runs[i].handler.name
                      IN  /\ metrics'.processed[name] = metrics.processed[name] + 1
                          /\ metrics'.errors[name] = metrics.errors[name] + 1
                          /\ \A r \in NewResults(t, i) :
                                /\ Len(r) = 1
                                /\ r # <<>> =>
                                      /\ r[1].event_type = t.envelope.event_type \o ".error"
                                      /\ r[1].error # <<>>
                                      /\ r[1].error[1].code = "handler_error"
                                      /\ r[1].error[1].source = name
                                      /\ r[1].ctx.trace_id = t.envelope.ctx.trace_id]_vars

C34_Witness ==
    \E t \in BagToSet(tasks) :
        \E i \in DOMAIN t.runs :
            /\ t.envelope.payload = "{}"
            /\ t.runs[i].handler.input_type # ""
            /\ t.runs[i].st = "done"
            /\ t.runs[i].result # <<>>
            /\ t.runs[i].result[1].error # <<>>
            /\ t.runs[i].result[1].error[1].code = "handler_error"
            /\ metrics.errors[t.runs[i].handler.name] = 1

(***************************************************************************)
(* A started bus that is not stopped.  HeavyHandler, offloaded, is         *)
(* subscribed to "calc.heavy" and to "other.event"; MockHandler,           *)
(* in-process, to "other.event".  One Envelope is published on             *)
(* "calc.heavy" and the scheduler publishes on "other.event".  A process   *)
(* returns a Struct or never returns.                                      *)
(*                                                                         *)
(* The event loop runs every task that is ready: the loop's get returns    *)
(* when the queue has an Envelope (bus.py 302), a created _dispatch task   *)
(* starts (bus.py 303), an in-process invocation ends with its result or   *)
(* at its timeout (bus.py 244).  An offloaded invocation need not end.     *)
(***************************************************************************)
ConcurrentRegistrations == <<<<3, "calc.heavy">>, <<1, "other.event">>, <<3, "other.event">>>>

ConcurrentPublishInputs == {"calc.heavy"}

ConcurrentKinds == {"struct", "hang"}

InProcessDone ==
    \E t \in BagToSet(tasks), i \in 1..Len(Catalog), k \in ConcurrentKinds :
        /\ t.pc = "gather"
        /\ i \in DOMAIN t.runs
        /\ t.runs[i].handler.execution_mode = "main"
        /\ HandlerDone(t, i, k)

ConcurrentNext ==
    \/ \E n \in DOMAIN ConcurrentRegistrations :
          /\ n = budget.registered + 1
          /\ RegisterOn(ConcurrentRegistrations[n][1], ConcurrentRegistrations[n][2])
    \/ OnError
    \/ Schedule
    \/ Start
    \/ LoopGet
    \/ LoopTimeout
    \/ \E e \in ConcurrentPublishInputs : Publish(e, "")
    \/ \E i \in DOMAIN scheduled : SchedFire(i)
    \/ \E t \in BagToSet(tasks) : DispatchStart(t)
    \/ \E t \in BagToSet(tasks), i \in 1..Len(Catalog), k \in ConcurrentKinds :
          HandlerDone(t, i, k)
    \/ \E t \in BagToSet(tasks) : DispatchFinish(t)

ConcurrentSpec ==
    /\ Init
    /\ [][ConcurrentNext]_vars
    /\ WF_vars(LoopGet)
    /\ WF_vars(\E t \in BagToSet(tasks) : DispatchStart(t))
    /\ WF_vars(InProcessDone)

(***************************************************************************)
(* C35.  Dispatch tasks run concurrently with each other and with the      *)
(* loop: while a handler invoked for another Envelope is still running, or *)
(* never returns, an Envelope on the queue is dequeued, its _dispatch task *)
(* starts, and its in-process invocations end.                             *)
(***************************************************************************)
ConcurrentEnvelopes ==
    {create("calc.heavy", "hello", "", "", "", "conn-1", Uuid("p", 1))}
    \cup {create("other.event", "tick", "scheduler", "", "", "", Uuid("s", n)) :
             n \in 1..MaxSchedFire}

StillRunning(b) ==
    \E t \in BagToSet(tasks) :
        /\ t.envelope # b
        /\ t.pc = "gather"
        /\ \E i \in DOMAIN t.runs : t.runs[i].st = "run"

OnQueue(b) == \E n \in DOMAIN queue : queue[n] = b

Spawned(b) == \E t \in BagToSet(tasks) : t.envelope = b /\ t.pc = "new"

InProcessRunning(b) ==
    \E t \in BagToSet(tasks) :
        /\ t.envelope = b
        /\ t.pc = "gather"
        /\ \E i \in DOMAIN t.runs :
              t.runs[i].handler.execution_mode = "main" /\ t.runs[i].st = "run"

C35_Concurrent ==
    \A b \in ConcurrentEnvelopes :
        /\ (StillRunning(b) /\ OnQueue(b)) ~> ~OnQueue(b)
        /\ (StillRunning(b) /\ Spawned(b)) ~> ~Spawned(b)
        /\ (StillRunning(b) /\ InProcessRunning(b)) ~> ~InProcessRunning(b)

C35_Witness ==
    \E t \in BagToSet(tasks), u \in BagToSet(tasks) :
        /\ t.envelope.event_type = "calc.heavy"
        /\ t.pc = "gather"
        /\ \E i \in DOMAIN t.runs : t.runs[i].st = "run"
        /\ u.envelope.event_type = "other.event"
        /\ u.pc = "gather"
        /\ \E i \in DOMAIN u.runs :
              /\ u.runs[i].handler.name = "MockHandler"
              /\ u.runs[i].st = "done"
              /\ u.runs[i].result # <<>>
        /\ metrics.processed["HeavyHandler"] = 0
        /\ metrics.processed["MockHandler"] = 1

(***************************************************************************)
(* A started bus with two handlers subscribed to the request's event type: *)
(* MockHandler, in-process, whose result has the awaited response type,    *)
(* and HeavyHandler, offloaded; AuditHandler is subscribed to the response *)
(* type.  A process returns a Struct or never returns; the request's       *)
(* timeout may elapse while the waiter is pending.  Besides the request    *)
(* there is published traffic on the same event type.                      *)
(***************************************************************************)
SiblingRegistrations ==
    <<<<1, "test.event">>, <<3, "test.event">>, <<2, "test.result">>>>

SiblingRequestInputs == {<<"test.event", "test.result">>}

SiblingPublishInputs == {"test.event"}

SiblingKinds == {"struct", "hang"}

SiblingNext ==
    \/ \E n \in DOMAIN SiblingRegistrations :
          /\ n = budget.registered + 1
          /\ RegisterOn(SiblingRegistrations[n][1], SiblingRegistrations[n][2])
    \/ OnError
    \/ Start
    \/ LoopGet
    \/ LoopTimeout
    \/ \E t \in BagToSet(tasks) : DispatchStart(t)
    \/ \E t \in BagToSet(tasks), i \in 1..Len(Catalog), k \in SiblingKinds :
          HandlerDone(t, i, k)
    \/ \E t \in BagToSet(tasks) : DispatchFinish(t)
    \/ \E e \in SiblingPublishInputs : Publish(e, "")
    \/ \E in \in SiblingRequestInputs : RequestCall(in[1], in[2])
    \/ \E c \in DOMAIN calls : RequestReturn(c)
    \/ \E c \in DOMAIN calls : RequestTimeout(c)

SiblingSpec == Init /\ [][SiblingNext]_vars

(***************************************************************************)
(* C36.  A response that a handler produces while the request is waiting   *)
(* resolves the waiter when it is produced, also when another handler of   *)
(* the same fan-out is still running: at the end of an invocation whose    *)
(* result matches a pending waiter, the waiter's future is done.           *)
(***************************************************************************)
AwaitedBy(c, r) ==
    /\ r # <<>>
    /\ calls[c].pc = "wait"
    /\ ~calls[c].future.done
    /\ calls[c].waiter_key = WaiterKey(r[1].event_type, r[1].ctx.trace_id)

SiblingRunning(t, i) ==
    \E j \in DOMAIN t.runs : j # i /\ t.runs[j].st = "run"

C36_ResponseNotHeld ==
    [][\A t \in BagToSet(tasks), i \in 1..Len(Catalog), k \in SiblingKinds :
          (HandlerDone(t, i, k) /\ SiblingRunning(t, i)) =>
             \A r \in NewResults(t, i), c \in DOMAIN calls :
                AwaitedBy(c, r) => calls'[c].future.done]_vars

(***************************************************************************)
(* A started bus whose requests await a response type that may contain a   *)
(* colon, and whose published Envelopes carry a trace id given by the      *)
(* publisher, as the transport's clients give one (transport.py 34, 41):   *)
(* it may contain a colon and the trace id of a request.                   *)
(***************************************************************************)
KeyRequestInputs == {<<"calc.heavy", "test.result">>, <<"calc.heavy", "test.result:k">>}

KeyPublishInputs == {"test.event", "test.result"}

KeyTraces == {Uuid("r", 1), "k:" \o Uuid("r", 1)}

KeyNext ==
    \/ Register
    \/ OnError
    \/ Start
    \/ LoopGet
    \/ LoopTimeout
    \/ \E e \in KeyPublishInputs, trace_id \in KeyTraces : Publish(e, trace_id)
    \/ \E t \in BagToSet(tasks) : DispatchStart(t)
    \/ \E t \in BagToSet(tasks), i \in 1..Len(Catalog) : HandlerDone(t, i, "struct")
    \/ \E t \in BagToSet(tasks) : DispatchFinish(t)
    \/ \E in \in KeyRequestInputs : RequestCall(in[1], in[2])
    \/ \E c \in DOMAIN calls : RequestReturn(c)
    \/ \E c \in DOMAIN calls : RequestTimeout(c)

KeySpec == Init /\ [][KeyNext]_vars

(***************************************************************************)
(* C37.  A waiter is resolved only by an Envelope whose event type is the  *)
(* awaited response type and whose trace id is the request's trace id:     *)
(* the Envelope a waiter's future holds has both, whether it was published *)
(* or is the result of a handler.                                          *)
(***************************************************************************)
C37_ResolvedByPair ==
    \A c \in DOMAIN calls :
        calls[c].future.result # <<>> =>
           /\ calls[c].future.result[1].event_type = calls[c].wait_event
           /\ calls[c].future.result[1].ctx.trace_id = calls[c].envelope.ctx.trace_id

(***************************************************************************)
(* C38.  Every Envelope that request() returns carries the trace id of the *)
(* request Envelope it enqueued, whether it is the matching response, the  *)
(* timeout Error Envelope or the shutdown Error Envelope.                  *)
(***************************************************************************)
C38_ReturnedTrace ==
    \A c \in DOMAIN calls :
        (calls[c].pc = "returned" /\ calls[c].result # <<>>) =>
           calls[c].result[1].ctx.trace_id = calls[c].envelope.ctx.trace_id

(***************************************************************************)
(* C39.  A waiter is one-shot: once its future is done, by a matching      *)
(* Envelope, by the request's timeout or by stop(), no step sets it again; *)
(* a matching Envelope taken up while the waiter is still in the table     *)
(* with its future done leaves the requests alone and is fanned out to the *)
(* subscribers of its event type or dropped, and a matching handler result *)
(* is put on the queue.                                                    *)
(***************************************************************************)
Spent(envelope) ==
    LET key == WaiterKey(envelope.event_type, envelope.ctx.trace_id)
    IN  key \in DOMAIN waiters /\ calls[waiters[key]].future.done

C39_OneShot ==
    [][/\ \A c \in DOMAIN calls :
             calls[c].future.done => calls'[c].future = calls[c].future
       /\ \A t \in BagToSet(tasks) :
             /\ (Taken(t) /\ Spent(t.envelope)) =>
                   /\ calls' = calls
                   /\ StartsOnePerRegistration(t)
             /\ DispatchFinish(t) =>
                   \A i \in DOMAIN t.runs :
                      (t.runs[i].result # <<>> /\ Spent(t.runs[i].result[1])) =>
                         /\ \A c \in DOMAIN calls : calls'[c] = calls[c]
                         /\ \E n \in DOMAIN queue' :
                               n > Len(queue) /\ queue'[n] = t.runs[i].result[1]]_vars

C39_Witness ==
    \E c \in DOMAIN calls, t \in BagToSet(tasks) :
        /\ calls[c].pc = "wait"
        /\ calls[c].future.done
        /\ calls[c].future.result # <<>>
        /\ calls[c].waiter_key \in DOMAIN waiters
        /\ waiters[calls[c].waiter_key] = c
        /\ t.pc = "gather"
        /\ t.envelope.event_type = calls[c].wait_event
        /\ t.envelope.ctx.trace_id = calls[c].envelope.ctx.trace_id

(***************************************************************************)
(* C40.  The delivery metadata in the Context's extra of an inbound        *)
(* Envelope is carried unchanged by every Envelope the bus derives from    *)
(* it: the result of an invocation, the forwarded Envelope as well as the  *)
(* timeout or handler_error Error Envelope, has the extra of the Envelope  *)
(* the handler was invoked for.                                            *)
(***************************************************************************)
C40_ExtrasCarried ==
    [][\A t \in BagToSet(tasks), i \in 1..Len(Catalog), k \in DecodeKinds :
          HandlerDone(t, i, k) =>
             \A r \in NewResults(t, i) :
                r # <<>> => r[1].ctx.extra = t.envelope.ctx.extra]_vars

====
